---- MODULE Spec2Model ----
(***************************************************************************)
(* A model of the steno exercise program: the key table and the chord      *)
(* parser (steno_keys.py, exercise_generator.py), the exercise history     *)
(* with its persisted copy, the word weights computed from the history     *)
(* and the weighted draw of a new exercise (exercise_generator.py), the    *)
(* reverse index built at construction, the conversion of the history to   *)
(* and from the JSON document of the history file (exercise_log.py), saves *)
(* that fail or are cut short, and the exercise frame in which the words   *)
(* of an exercise are typed one after the other (ui_elements.py).          *)
(*                                                                         *)
(* Text is modelled as a sequence of one-character strings, so that        *)
(* splitting, scanning and indexing are the operations the code performs.  *)
(* Typing times and weights are exact rationals <<numerator, denominator>> *)
(* in lowest terms with a positive denominator.                            *)
(***************************************************************************)
EXTENDS Integers, Sequences, FiniteSets, TLC

VARIABLES
    steno_dict,        \* the loaded dictionary: its (chord, word) entries in iteration order
    reverse_dict,      \* word -> the notations kept for it (a defaultdict: keys appear on access)
    exercise_history,  \* the in-memory list of ExerciseResult
    user_log,          \* the contents of the history file
    call,              \* the last call made on the generator and its outcome
    exercise_frame,    \* the StenoExerciseFrame: its words, word_i, begin time and date
    listener,          \* what the frame's listener has been told since the exercise was set
    monotonic,         \* the reading of time.monotonic()
    settings_dialog    \* the StenoExerciseSettingsDialog, open or not

frame_vars == <<exercise_frame, listener, monotonic, settings_dialog>>

vars == <<steno_dict, reverse_dict, exercise_history, user_log, call, frame_vars>>

(***************************************************************************)
(* Generic helpers.                                                        *)
(***************************************************************************)
Range(s) == {s[i] : i \in 1..Len(s)}

\* str.index / the position of the first occurrence, counted from 0.
IndexOf(s, x) == (CHOOSE i \in 1..Len(s) : s[i] = x /\ \A j \in 1..(i - 1) : s[j] # x) - 1

Abs(n) == IF n < 0 THEN -n ELSE n

RECURSIVE Gcd(_, _)
Gcd(a, b) == IF b = 0 THEN a ELSE Gcd(b, a % b)

\* The rational n/d in lowest terms with a positive denominator.
Rat(n, d) ==
    LET g == Gcd(Abs(n), Abs(d))
        s == IF d < 0 THEN -1 ELSE 1
    IN <<(s * n) \div g, (s * d) \div g>>

RAdd(a, b) == Rat(a[1] * b[2] + b[1] * a[2], a[2] * b[2])
RInv(a) == Rat(a[2], a[1])
RLess(a, b) == a[1] * b[2] < b[1] * a[2]
RZero == <<0, 1>>
ROne == <<1, 1>>

\* Python floats, as far as 1/sum(1/typing_time ...) goes: float("inf"),
\* and a positive float whose reciprocal is not finite (every positive
\* float below 1/sys.float_info.max, such as 1e-310), kept as a number
\* below every other time.  1/x of such a float is inf, a sum with inf is
\* inf, and 1/inf is 0.0.  The other numbers are computed exactly.
FloatInfinity == <<1, 0>>
Tiny == <<1, 1000000>>

FloatInv(a) ==
    IF a = FloatInfinity THEN RZero
    ELSE IF a = Tiny THEN FloatInfinity
    ELSE RInv(a)

FloatAdd(a, b) == IF FloatInfinity \in {a, b} THEN FloatInfinity ELSE RAdd(a, b)

(***************************************************************************)
(* Python containers: a value carries its type, so that a set and a list   *)
(* of the same elements are different values, as they are in Python.       *)
(***************************************************************************)
PySet(elements) == [t |-> "set", v |-> elements]
PyList(elements) == [t |-> "list", v |-> elements]

(***************************************************************************)
(* steno_keys.py: the keys, by enum value, with the letter printed on      *)
(* each and its place in steno order.                                      *)
(***************************************************************************)
S_L == 0
T_L == 1
P_L == 2
H_L == 3
K_L == 4
W_L == 5
R_L == 6
A == 7
O == 8
STAR == 9
E == 10
U == 11
F_R == 12
P_R == 13
L_R == 14
T_R == 15
D_R == 16
R_R == 17
B_R == 18
G_R == 19
S_R == 20
Z_R == 21

StenoKeys == S_L..Z_R

letter(key) ==
    <<"S", "T", "P", "H", "K", "W", "R", "A", "O", "*", "E", "U",
      "F", "P", "L", "T", "D", "R", "B", "G", "S", "Z">>[key + 1]

\* The left-half letters in the order the enum declares their keys.
left_half_declared == <<"S", "T", "P", "H", "K", "W", "R", "A", "O", "*">>

left_half_order == <<"S", "T", "K", "P", "W", "H", "R", "A", "O", "*">>
right_half_order == <<"E", "U", "F", "R", "P", "B", "L", "G", "T", "S", "D", "Z">>

order(key) ==
    IF key <= STAR
    THEN IndexOf(left_half_order, letter(key))
    ELSE Len(left_half_order) + IndexOf(right_half_order, letter(key))

\* key.order for every key from key on, as a list.
RECURSIVE OrdersFrom(_)
OrdersFrom(key) ==
    IF key > Z_R THEN <<>> ELSE <<order(key)>> \o OrdersFrom(key + 1)

\* key.order of every key, computed once: KeyOrder[key + 1] is key.order.
KeyOrder == OrdersFrom(S_L)

(***************************************************************************)
(* exercise_generator.py, parse_chords.  No key is written NoKey.          *)
(***************************************************************************)
NoKey == -1

\* A variant of ScanKeys that takes a key whose order is the threshold.
RECURSIVE ScanKeysFromThreshold(_, _, _, _)
ScanKeysFromThreshold(key, l, min_order, matching_key) ==
    IF key > Z_R THEN matching_key
    ELSE ScanKeysFromThreshold(key + 1, l, min_order,
                  IF /\ letter(key) = l
                     /\ KeyOrder[key + 1] >= min_order
                     /\ (matching_key = NoKey \/ KeyOrder[matching_key + 1] > KeyOrder[key + 1])
                  THEN key ELSE matching_key)

\* The scan of all enum members, in declaration order, for the key of one
\* letter: the candidate replaces the match so far when its order is lower.
RECURSIVE ScanKeys(_, _, _, _)
ScanKeys(key, l, min_order, matching_key) ==
    IF key > Z_R THEN matching_key
    ELSE ScanKeys(key + 1, l, min_order,
                  IF /\ letter(key) = l
                     /\ KeyOrder[key + 1] > min_order
                     /\ (matching_key = NoKey \/ KeyOrder[matching_key + 1] > KeyOrder[key + 1])
                  THEN key ELSE matching_key)

MatchingKey(l, min_order) == ScanKeys(S_L, l, min_order, NoKey)

\* A variant of ParseLetters in which "-" leaves the threshold as it is.
RECURSIVE ParseLettersDashIgnored(_, _, _, _)
ParseLettersDashIgnored(chord, i, min_order, keys) ==
    IF i > Len(chord) THEN [ok |-> TRUE, keys |-> keys]
    ELSE IF chord[i] = "-" THEN ParseLettersDashIgnored(chord, i + 1, min_order, keys)
    ELSE LET matching_key == MatchingKey(chord[i], min_order)
         IN IF matching_key = NoKey
            THEN [ok |-> FALSE, keys |-> keys]
            ELSE ParseLettersDashIgnored(chord, i + 1, KeyOrder[matching_key + 1],
                                         keys \cup {matching_key})

\* A variant of ParseLetters that skips a letter for which no key is found.
RECURSIVE ParseLettersSkipping(_, _, _, _)
ParseLettersSkipping(chord, i, min_order, keys) ==
    IF i > Len(chord) THEN [ok |-> TRUE, keys |-> keys]
    ELSE IF chord[i] = "-" THEN ParseLettersSkipping(chord, i + 1, STAR, keys)
    ELSE LET matching_key == MatchingKey(chord[i], min_order)
         IN IF matching_key = NoKey
            THEN ParseLettersSkipping(chord, i + 1, min_order, keys)
            ELSE ParseLettersSkipping(chord, i + 1, KeyOrder[matching_key + 1],
                                      keys \cup {matching_key})

\* One "/"-segment, letter by letter from position i.  The result is
\* [ok, keys]: ok is FALSE when the assertion on matching_key fails.
RECURSIVE ParseLetters(_, _, _, _)
ParseLetters(chord, i, min_order, keys) ==
    IF i > Len(chord) THEN [ok |-> TRUE, keys |-> keys]
    ELSE IF chord[i] = "-" THEN ParseLetters(chord, i + 1, STAR, keys)
    ELSE LET matching_key == MatchingKey(chord[i], min_order)
         IN IF matching_key = NoKey
            THEN [ok |-> FALSE, keys |-> keys]
            ELSE ParseLetters(chord, i + 1, KeyOrder[matching_key + 1], keys \cup {matching_key})

ParseChord(chord) == ParseLetters(chord, 1, -1, {})

\* The namedtuple Chord: keys is a set when parse_chords made the chord.
Chord(keys) == [keys |-> keys]

\* A variant of SplitFrom that drops the empty segments.
RECURSIVE SplitFromDroppingEmpty(_, _, _)
SplitFromDroppingEmpty(s, i, cur) ==
    IF i > Len(s) THEN (IF cur = <<>> THEN <<>> ELSE <<cur>>)
    ELSE IF s[i] = "/"
    THEN (IF cur = <<>> THEN <<>> ELSE <<cur>>) \o SplitFromDroppingEmpty(s, i + 1, <<>>)
    ELSE SplitFromDroppingEmpty(s, i + 1, Append(cur, s[i]))

\* str.split("/"): the segments between the separators, empty ones kept.
RECURSIVE SplitFrom(_, _, _)
SplitFrom(s, i, cur) ==
    IF i > Len(s) THEN <<cur>>
    ELSE IF s[i] = "/" THEN <<cur>> \o SplitFrom(s, i + 1, <<>>)
    ELSE SplitFrom(s, i + 1, Append(cur, s[i]))

Split(s) == SplitFrom(s, 1, <<>>)

\* The loop over the segments, from the i-th: each parsed chord is appended.
RECURSIVE ParseSegments(_, _, _)
ParseSegments(segs, i, chords) ==
    IF i > Len(segs) THEN [ok |-> TRUE, chords |-> chords]
    ELSE LET parsed == ParseChord(segs[i])
         IN IF parsed.ok
            THEN ParseSegments(segs, i + 1, Append(chords, Chord(PySet(parsed.keys))))
            ELSE [ok |-> FALSE, chords |-> <<>>]

\* parse_chords: [ok, chords]; the chords hold the key sets, in segment order.
parse_chords(stroke) == ParseSegments(Split(stroke), 1, <<>>)

(***************************************************************************)
(* gui.py, the chord parser written out in                                 *)
(* StenoApplication._generate_exercise.                                    *)
(***************************************************************************)
\* The loop over the letters of one "/"-segment from position i: a "-" sets
\* the threshold to STAR, and a key that was found is added to keys while
\* the threshold stays as it is.
RECURSIVE InlineParseLetters(_, _, _, _)
InlineParseLetters(chord, i, min_order, keys) ==
    IF i > Len(chord) THEN [ok |-> TRUE, keys |-> keys]
    ELSE IF chord[i] = "-" THEN InlineParseLetters(chord, i + 1, STAR, keys)
    ELSE LET matching_key == MatchingKey(chord[i], min_order)
         IN IF matching_key = NoKey
            THEN [ok |-> FALSE, keys |-> keys]
            ELSE InlineParseLetters(chord, i + 1, min_order, keys \cup {matching_key})

InlineParseChord(chord) == InlineParseLetters(chord, 1, -1, {})

\* The loop over stroke.split("/"), from the i-th segment.
RECURSIVE InlineParseSegments(_, _, _)
InlineParseSegments(segs, i, chords) ==
    IF i > Len(segs) THEN [ok |-> TRUE, chords |-> chords]
    ELSE LET parsed == InlineParseChord(segs[i])
         IN IF parsed.ok
            THEN InlineParseSegments(segs, i + 1, Append(chords, Chord(PySet(parsed.keys))))
            ELSE [ok |-> FALSE, chords |-> <<>>]

\* The chords _generate_exercise makes of one notation: [ok, chords].
InlineParseChords(stroke) == InlineParseSegments(Split(stroke), 1, <<>>)

Stroke(chord_sequence, written_word) ==
    [chord_sequence |-> chord_sequence, written_word |-> written_word]

(***************************************************************************)
(* The inputs: dictionaries, the lesson table, settings, exercise results. *)
(***************************************************************************)
Entry(chord, word) == [chord |-> chord, word |-> word]

\* The dictionary file, in iteration order.  "the" has a numeral brief listed
\* first and two more notations, "dog" has a numeral brief only, and the
\* first notation of "zap" is out of steno order.  The lesson word "fox" is
\* not in the dictionary.
Dictionary ==
    << Entry(<<"1", "-", "T">>, "the"),
       Entry(<<"-", "T">>, "the"),
       Entry(<<"K", "A", "T">>, "cat"),
       Entry(<<"T", "H", "E">>, "the"),
       Entry(<<"T", "K", "O", "G", "9">>, "dog"),
       Entry(<<"Z", "A", "P">>, "zap"),
       Entry(<<"S", "A", "P">>, "zap") >>

Lessons == <<"One Syllable Words", "Consonant Clusters">>

learn_plover_lesson_words ==
    [lesson \in Range(Lessons) |->
        IF lesson = "One Syllable Words" THEN <<"the">>
        ELSE <<"the", "cat", "dog", "zap", "fox">>]

\* Largest exercise_size of the settings handed to generate_exercise.
MaxExerciseSize == 2

\* Largest number of word results, over all exercises, in the history: under
\* Spec, and under HistorySpec.
MaxRecordedWords == 2
MaxHistoryWords == 4

\* The enabled-lesson lists: the sublists of the lesson catalogue.
EnabledLessonLists ==
    {<<>>, <<Lessons[1]>>, <<Lessons[2]>>, <<Lessons[1], Lessons[2]>>}

ExerciseSettings(exercise_size, enabled_lessons) ==
    [exercise_size |-> exercise_size, enabled_lessons |-> enabled_lessons]

SettingsInputs ==
    {ExerciseSettings(n, ls) : n \in 0..MaxExerciseSize, ls \in EnabledLessonLists}

Half == <<1, 2>>
Two == <<2, 1>>

\* Typing times of recorded words, in seconds.
TypingTimes == {Half, Two}

\* A datetime: the date, the time of day to the second, the microseconds.
Datetime(date, time, microsecond) ==
    [date |-> date, time |-> time, microsecond |-> microsecond]

\* datetime.now() at the start of a recorded exercise.
Timestamps == {Datetime("2020-03-01", "10:00:00", 250000)}

\* The strokes generate_exercise returns for "the" and for "cat".
StrokeOfThe == Stroke(<<Chord(PySet({T_R}))>>, "the")
StrokeOfCat == Stroke(<<Chord(PySet({K_L, A, T_R}))>>, "cat")

RecordedStrokes == {StrokeOfThe, StrokeOfCat}

ExerciseWordResult(stroke, is_typed_correctly, typing_time) ==
    [stroke |-> stroke, is_typed_correctly |-> is_typed_correctly,
     typing_time |-> typing_time]

WordResults ==
    {ExerciseWordResult(s, c, t) : s \in RecordedStrokes, c \in BOOLEAN, t \in TypingTimes}

ExerciseResult(timestamp, words) == [timestamp |-> timestamp, words |-> words]

\* The exercise results of n words.
ResultsOfSize(n) ==
    {ExerciseResult(ts, ws) : ts \in Timestamps, ws \in [1..n -> WordResults]}

RECURSIVE RecordedWords(_)
RecordedWords(history) ==
    IF history = <<>> THEN 0
    ELSE Len(Head(history).words) + RecordedWords(Tail(history))
(***************************************************************************)
(* exercise_generator.py, __init__: the reverse index.                     *)
(***************************************************************************)
\* A variant of ExcludedDigits with all ten digits.
ExcludedAllDigits == {"0", "1", "2", "3", "4", "5", "6", "7", "8", "9"}

\* "012345789"
ExcludedDigits == {"0", "1", "2", "3", "4", "5", "7", "8", "9"}

\* dict.get / a defaultdict read that does not insert.
Get(d, k, default) == IF k \in DOMAIN d THEN d[k] ELSE default

\* d[k].append(x) on a defaultdict(list).
AppendTo(d, k, x) ==
    IF k \in DOMAIN d
    THEN [d EXCEPT ![k] = Append(@, x)]
    ELSE d @@ (k :> <<x>>)

RECURSIVE BuildReverseDict(_, _, _)
BuildReverseDict(dict, i, rev) ==
    IF i > Len(dict) THEN rev
    ELSE BuildReverseDict(dict, i + 1,
            IF \A j \in 1..Len(dict[i].chord) : dict[i].chord[j] \notin ExcludedDigits
            THEN AppendTo(rev, dict[i].word, dict[i].chord)
            ELSE rev)

ReverseDict(dict) == BuildReverseDict(dict, 1, <<>>)

(***************************************************************************)
(* JSON documents, as json.load returns them and json.dump takes them:     *)
(* every value carries its JSON type.                                      *)
(***************************************************************************)
JInt(n) == [t |-> "int", v |-> n]
JFloat(x) == [t |-> "float", v |-> x]
JBool(b) == [t |-> "bool", v |-> b]
JStr(text) == [t |-> "str", v |-> text]
JList(elements) == [t |-> "list", v |-> elements]
JObject(keys) == [t |-> "object", v |-> keys]

(***************************************************************************)
(* exercise_log.py, to_json_object, and json.dump of what it returns: the  *)
(* history as written to the file.                                         *)
(***************************************************************************)
\* str(datetime) and datetime.fromisoformat on the datetimes of the model:
\* str leaves the microseconds out when they are zero.
IsoTexts ==
    << [datetime |-> Datetime("2020-03-01", "10:00:00", 0),
        text |-> "2020-03-01 10:00:00"],
       [datetime |-> Datetime("2020-03-01", "10:00:00", 250000),
        text |-> "2020-03-01 10:00:00.250000"] >>

StrOfDatetime(datetime) ==
    IsoTexts[CHOOSE i \in 1..Len(IsoTexts) : IsoTexts[i].datetime = datetime].text

\* The elements of a set or a list in iteration order.  A list yields its
\* elements in order; a set yields them in an order of its own, which the
\* language leaves open: some fixed order of the elements.
KeyList(keys) ==
    IF keys.t = "list" THEN keys.v
    ELSE CHOOSE yielded \in [1..Cardinality(keys.v) -> keys.v] : Range(yielded) = keys.v

\* The member names of the enum, by value.
name(key) ==
    <<"S_L", "T_L", "P_L", "H_L", "K_L", "W_L", "R_L", "A", "O", "STAR", "E", "U",
      "F_R", "P_R", "L_R", "T_R", "D_R", "R_R", "B_R", "G_R", "S_R", "Z_R">>[key + 1]

\* Keys written by member name instead of by value.
RECURSIVE KeysToJsonByName(_)
KeysToJsonByName(key_list) ==
    IF key_list = <<>> THEN <<>>
    ELSE <<JStr(name(Head(key_list)))>> \o KeysToJsonByName(Tail(key_list))

\* A key is an IntEnum member: json.dump writes its integer value.
RECURSIVE KeysToJson(_)
KeysToJson(key_list) ==
    IF key_list = <<>> THEN <<>>
    ELSE <<JInt(Head(key_list))>> \o KeysToJson(Tail(key_list))

ChordToJson(chord) == JList(<<JList(KeysToJson(KeyList(chord.keys)))>>)

RECURSIVE ChordsToJson(_)
ChordsToJson(chord_sequence) ==
    IF chord_sequence = <<>> THEN <<>>
    ELSE <<ChordToJson(Head(chord_sequence))>> \o ChordsToJson(Tail(chord_sequence))

StrokeToJson(stroke) ==
    JList(<<JList(ChordsToJson(stroke.chord_sequence)), JStr(stroke.written_word)>>)

WordResultToJson(w) ==
    JList(<<StrokeToJson(w.stroke), JBool(w.is_typed_correctly), JFloat(w.typing_time)>>)

RECURSIVE WordResultsToJson(_)
WordResultsToJson(words) ==
    IF words = <<>> THEN <<>>
    ELSE <<WordResultToJson(Head(words))>> \o WordResultsToJson(Tail(words))

ExerciseResultToJson(r) ==
    JList(<<JStr(StrOfDatetime(r.timestamp)), JList(WordResultsToJson(r.words))>>)

RECURSIVE ExerciseResultsToJson(_)
ExerciseResultsToJson(history) ==
    IF history = <<>> THEN <<>>
    ELSE <<ExerciseResultToJson(Head(history))>> \o ExerciseResultsToJson(Tail(history))

to_json_object(history) == JList(ExerciseResultsToJson(history))

(***************************************************************************)
(* The history file: missing, not openable, not JSON text, or a document.  *)
(***************************************************************************)
NoDocument == JList(<<>>)
File(kind, document) == [kind |-> kind, document |-> document]
NoFile == File("missing", NoDocument)
JsonFile(document) == File("json", document)

(***************************************************************************)
(* exercise_log.py, from_json_object.  A conversion ends in [raised,       *)
(* value]: the exception it raises, or "none" and the converted object.    *)
(***************************************************************************)
Ok(value) == [raised |-> "none", value |-> value]
Raised(exception) == [raised |-> exception, value |-> <<>>]

\* The field types of the registered tuples, and the element type of the
\* List types among them.
tuple_field_types ==
    [Stroke |-> <<"List[Chord]", "str">>,
     Chord |-> <<"List[StenoKeys]">>,
     ExerciseResult |-> <<"datetime", "List[ExerciseWordResult]">>,
     ExerciseWordResult |-> <<"Stroke", "bool", "float">>,
     ExerciseSettings |-> <<"int", "List[str]">>]

ListArgs ==
    [ x \in {"List[ExerciseResult]", "List[ExerciseWordResult]", "List[Chord]",
             "List[StenoKeys]", "List[str]"} |->
        CASE x = "List[ExerciseResult]" -> "ExerciseResult"
          [] x = "List[ExerciseWordResult]" -> "ExerciseWordResult"
          [] x = "List[Chord]" -> "Chord"
          [] x = "List[StenoKeys]" -> "StenoKeys"
          [] x = "List[str]" -> "str" ]

\* The characters of the words of the model, for a string that is iterated.
CharsOf == ("the" :> <<"t", "h", "e">>) @@ ("cat" :> <<"c", "a", "t">>) @@ ("" :> <<>>)

RECURSIVE StrsOf(_)
StrsOf(texts) ==
    IF texts = <<>> THEN <<>> ELSE <<JStr(Head(texts))>> \o StrsOf(Tail(texts))

\* for elem in object / zip(object, ...): a list yields its elements, an
\* object (a dict) its keys, a string its characters; a number, a boolean or
\* null is not iterable.
Elements(object) ==
    CASE object.t = "list" -> Ok(object.v)
      [] object.t = "object" -> Ok(StrsOf(object.v))
      [] object.t = "str" ->
            Ok(StrsOf(IF object.v \in DOMAIN CharsOf THEN CharsOf[object.v] ELSE <<object.v>>))
      [] OTHER -> Raised("TypeError")

\* bool(object): the truth value of any object.
ToBool(object) ==
    CASE object.t = "bool" -> object.v
      [] object.t = "int" -> object.v # 0
      [] object.t = "float" -> object.v[1] # 0
      [] object.t = "str" -> object.v # ""
      [] object.t \in {"list", "object"} -> object.v # <<>>
      [] OTHER -> FALSE

\* float(object): a number or a boolean converts; the strings of the model
\* are none of them the text of a number.
ToFloat(object) ==
    CASE object.t = "float" -> Ok(object.v)
      [] object.t = "int" -> Ok(Rat(object.v, 1))
      [] object.t = "bool" -> Ok(IF object.v THEN ROne ELSE RZero)
      [] object.t = "str" -> Raised("ValueError")
      [] OTHER -> Raised("TypeError")

\* str(object): the text of a string; the documents of the model have a
\* string wherever a str is read.
StrOf(object) == Ok(object.v)

\* int(object), likewise; a float is truncated towards zero.
ToInt(object) ==
    CASE object.t = "int" -> Ok(object.v)
      [] object.t = "float" ->
            Ok(IF object.v[1] < 0 THEN -((-object.v[1]) \div object.v[2])
               ELSE object.v[1] \div object.v[2])
      [] object.t = "bool" -> Ok(IF object.v THEN 1 ELSE 0)
      [] object.t = "str" -> Raised("ValueError")
      [] OTHER -> Raised("TypeError")

\* StenoKeys(object): the member whose value equals the object (True equals
\* 1 and 2.0 equals 2); anything else is not a valid StenoKeys.
ToStenoKeys(object) ==
    LET number == CASE object.t = "int" -> object.v
                    [] object.t = "bool" -> IF object.v THEN 1 ELSE 0
                    [] object.t = "float" /\ object.v[2] = 1 -> object.v[1]
                    [] OTHER -> NoKey
    IN IF number \in StenoKeys THEN Ok(number) ELSE Raised("ValueError")

\* datetime.fromisoformat(object)
ToDatetime(object) ==
    IF object.t # "str" THEN Raised("TypeError")
    ELSE LET rows == {i \in 1..Len(IsoTexts) : IsoTexts[i].text = object.v}
         IN IF rows = {} THEN Raised("ValueError")
            ELSE Ok(IsoTexts[CHOOSE i \in rows : TRUE].datetime)

\* object_type(*res): a namedtuple of the converted fields; too few of them
\* is a TypeError.  The keys of a Chord are the list that was converted.
MakeTuple(object_type, res) ==
    IF Len(res) < Len(tuple_field_types[object_type]) THEN Raised("TypeError")
    ELSE CASE object_type = "Stroke" -> Ok(Stroke(res[1], res[2]))
           [] object_type = "Chord" -> Ok(Chord(PyList(res[1])))
           [] object_type = "ExerciseResult" -> Ok(ExerciseResult(res[1], res[2]))
           [] object_type = "ExerciseWordResult" ->
                 Ok(ExerciseWordResult(res[1], res[2], res[3]))
           [] object_type = "ExerciseSettings" -> Ok(ExerciseSettings(res[1], res[2]))

RECURSIVE from_json_object(_, _)
RECURSIVE FromElements(_, _, _, _)

\* The comprehension over the elements, paired with their types, from the
\* i-th on; it stops at the shorter of the two, as zip does.
FromElements(elems, elem_types, i, res) ==
    IF i > Len(elems) \/ i > Len(elem_types) THEN Ok(res)
    ELSE LET converted == from_json_object(elems[i], elem_types[i])
         IN IF converted.raised # "none" THEN converted
            ELSE FromElements(elems, elem_types, i + 1, Append(res, converted.value))

from_json_object(object, object_type) ==
    IF object_type \in DOMAIN ListArgs
    THEN LET elems == Elements(object)
         IN IF elems.raised # "none" THEN elems
            ELSE FromElements(elems.value,
                              [i \in 1..Len(elems.value) |-> ListArgs[object_type]], 1, <<>>)
    ELSE IF object_type = "str" THEN StrOf(object)
    ELSE IF object_type = "int" THEN ToInt(object)
    ELSE IF object_type = "StenoKeys" THEN ToStenoKeys(object)
    ELSE IF object_type = "bool" THEN Ok(ToBool(object))
    ELSE IF object_type = "float" THEN ToFloat(object)
    ELSE IF object_type = "datetime" THEN ToDatetime(object)
    ELSE IF object_type \in DOMAIN tuple_field_types
    THEN LET elems == Elements(object)
         IN IF elems.raised # "none" THEN elems
            ELSE LET res == FromElements(elems.value, tuple_field_types[object_type], 1, <<>>)
                 IN IF res.raised # "none" THEN res
                    ELSE MakeTuple(object_type, res.value)
    ELSE Raised("RuntimeError")

(***************************************************************************)
(* exercise_generator.py, _compute_word_weights.                           *)
(***************************************************************************)
\* A variant of CollectWords that does not test is_typed_correctly.
RECURSIVE CollectWordsAnyFlag(_, _, _)
CollectWordsAnyFlag(words, i, typing_times_by_word) ==
    IF i > Len(words) THEN typing_times_by_word
    ELSE CollectWordsAnyFlag(words, i + 1,
            AppendTo(typing_times_by_word, words[i].stroke.written_word,
                     words[i].typing_time))

\* The inner loop over words[1:], from position i of the exercise's words.
RECURSIVE CollectWords(_, _, _)
CollectWords(words, i, typing_times_by_word) ==
    IF i > Len(words) THEN typing_times_by_word
    ELSE CollectWords(words, i + 1,
            IF words[i].is_typed_correctly
            THEN AppendTo(typing_times_by_word, words[i].stroke.written_word,
                          words[i].typing_time)
            ELSE typing_times_by_word)

\* A variant of FirstCounted that counts the first word too (words[0:]).
FirstCountedIsFirst == 2 - 1

\* words[1:] starts at the second word.
FirstCounted == 2

RECURSIVE CollectHistory(_, _, _)
CollectHistory(history, i, typing_times_by_word) ==
    IF i > Len(history) THEN typing_times_by_word
    ELSE CollectHistory(history, i + 1,
            CollectWords(history[i].words, FirstCounted, typing_times_by_word))

TypingTimesByWord(history) == CollectHistory(history, 1, <<>>)

\* sum(1/typing_time for typing_time in typing_times)
RECURSIVE SumOfInverses(_)
SumOfInverses(typing_times) ==
    IF typing_times = <<>> THEN RZero
    ELSE FloatAdd(SumOfInverses(SubSeq(typing_times, 1, Len(typing_times) - 1)),
                  FloatInv(typing_times[Len(typing_times)]))

\* sum(typing_times)
RECURSIVE SumOfTimes(_)
SumOfTimes(typing_times) ==
    IF typing_times = <<>> THEN RZero
    ELSE RAdd(Head(typing_times), SumOfTimes(Tail(typing_times)))

\* Variants of WordWeight: 1/sum(t), without the inner reciprocals; the
\* harmonic mean n/sum(1/t); and sum(1/t), without the outer reciprocal.
WordWeightInverseOfSum(typing_times) == RInv(SumOfTimes(typing_times))

WordWeightHarmonicMean(typing_times) ==
    LET s == SumOfInverses(typing_times)
    IN Rat(Len(typing_times) * s[2], s[1])

WordWeightNoReciprocal(typing_times) == SumOfInverses(typing_times)

\* 1/sum(1/typing_time for typing_time in typing_times)
WordWeight(typing_times) == FloatInv(SumOfInverses(typing_times))

\* The dict comprehension over the items of typing_times_by_word.
RECURSIVE WeightByWord(_, _)
WeightByWord(words, typing_times_by_word) ==
    IF words = {} THEN <<>>
    ELSE LET word == CHOOSE w \in words : TRUE
         IN (word :> WordWeight(typing_times_by_word[word]))
                @@ WeightByWord(words \ {word}, typing_times_by_word)

compute_word_weights(history) ==
    LET typing_times_by_word == TypingTimesByWord(history)
    IN WeightByWord(DOMAIN typing_times_by_word, typing_times_by_word)
(***************************************************************************)
(* exercise_generator.py, generate_exercise.                               *)
(***************************************************************************)
\* A variant of WordsToInclude that takes the words of every lesson of the
\* catalogue, enabled or not.
WordsOfEveryLesson(enabled_lessons) ==
    learn_plover_lesson_words[Lessons[1]] \o learn_plover_lesson_words[Lessons[2]]

\* words_to_include: the lesson word lists, concatenated in list order.
RECURSIVE WordsToInclude(_)
WordsToInclude(enabled_lessons) ==
    IF enabled_lessons = <<>> THEN <<>>
    ELSE learn_plover_lesson_words[Head(enabled_lessons)]
            \o WordsToInclude(Tail(enabled_lessons))

\* A variant of DefaultWeight: 1 in place of 0.5.
DefaultWeightOne == ROne

\* The weight of a word that has none in the history.
DefaultWeight == Half

\* [word_weights.get(word, 0.5) for word in words_to_include]
RECURSIVE WeightsOfWordsToInclude(_, _)
WeightsOfWordsToInclude(words_to_include, word_weights) ==
    IF words_to_include = <<>> THEN <<>>
    ELSE <<Get(word_weights, Head(words_to_include), DefaultWeight)>>
            \o WeightsOfWordsToInclude(Tail(words_to_include), word_weights)

RECURSIVE Total(_)
Total(weights) ==
    IF weights = <<>> THEN RZero ELSE RAdd(Head(weights), Total(Tail(weights)))

\* A variant of Choices that leaves k at its default of 1.
ChoicesDefaultK(population, weights, k) ==
    [1..1 -> {population[i] : i \in {j \in 1..Len(population) : RLess(RZero, weights[j])}}]

\* random.choices(population, weights, k=k): the lists it can return.  Each
\* draw returns an element whose share of the cumulative weights is not empty.
Choices(population, weights, k) ==
    [1..k -> {population[i] : i \in {j \in 1..Len(population) : RLess(RZero, weights[j])}}]

\* A variant of ChoicesRaises that accepts an empty population.
ChoicesRaisesOnWeightsOnly(population, weights) ==
    IF population # <<>> /\ ~RLess(RZero, Total(weights)) THEN "ValueError" ELSE "none"

\* The exception random.choices raises, "none" when it returns.
ChoicesRaises(population, weights) ==
    IF population = <<>> THEN "IndexError"
    ELSE IF ~RLess(RZero, Total(weights)) THEN "ValueError"
    ELSE "none"

\* parse_chords of every notation of the dictionary, computed once.
RECURSIVE ParsedFrom(_)
ParsedFrom(i) ==
    IF i > Len(Dictionary) THEN <<>>
    ELSE (Dictionary[i].chord :> parse_chords(Dictionary[i].chord)) @@ ParsedFrom(i + 1)

ParsedNotations == ParsedFrom(1)

ParseNotation(stroke) ==
    IF stroke \in DOMAIN ParsedNotations THEN ParsedNotations[stroke]
    ELSE parse_chords(stroke)

\* A variant of FirstNotation that takes the last notation of the word.
LastNotation(notations) == notations[Len(notations)]

\* self.reverse_dict[word][0]
FirstNotation(notations) == notations[1]

\* A variant of BuildStrokes that leaves out a drawn word with no notation.
RECURSIVE BuildStrokesSkipping(_, _, _, _)
BuildStrokesSkipping(random_words, i, rev, strokes) ==
    IF i > Len(random_words)
    THEN [raised |-> "none", strokes |-> strokes, reverse_dict |-> rev]
    ELSE LET word == random_words[i]
             read == IF word \in DOMAIN rev THEN rev ELSE rev @@ (word :> <<>>)
         IN IF read[word] = <<>>
            THEN BuildStrokesSkipping(random_words, i + 1, read, strokes)
            ELSE LET parsed == ParseNotation(FirstNotation(read[word]))
                 IN IF ~parsed.ok
                    THEN [raised |-> "AssertionError", strokes |-> <<>>,
                          reverse_dict |-> read]
                    ELSE BuildStrokesSkipping(random_words, i + 1, read,
                                              Append(strokes, Stroke(parsed.chords, word)))

\* The list comprehension of the return statement, from the i-th drawn word:
\* the read of reverse_dict inserts a missing word with no notation.
RECURSIVE BuildStrokes(_, _, _, _)
BuildStrokes(random_words, i, rev, strokes) ==
    IF i > Len(random_words)
    THEN [raised |-> "none", strokes |-> strokes, reverse_dict |-> rev]
    ELSE LET word == random_words[i]
             read == IF word \in DOMAIN rev THEN rev ELSE rev @@ (word :> <<>>)
         IN IF read[word] = <<>>
            THEN [raised |-> "IndexError", strokes |-> <<>>, reverse_dict |-> read]
            ELSE LET parsed == ParseNotation(FirstNotation(read[word]))
                 IN IF ~parsed.ok
                    THEN [raised |-> "AssertionError", strokes |-> <<>>,
                          reverse_dict |-> read]
                    ELSE BuildStrokes(random_words, i + 1, read,
                                      Append(strokes, Stroke(parsed.chords, word)))

NoSettings == ExerciseSettings(0, <<>>)

\* No argument, no result.
Nothing == [nothing |-> TRUE]

\* A call on the generator: its name, its argument, the locals of
\* _compute_word_weights and generate_exercise, and how it ended (the
\* exception raised, or "none", and the list returned).  The argument and
\* the result of a step of parse_chords are kept in argument and result.
Call(op, settings, times, word_weights, words, weights, drawn, raised, strokes) ==
    [op |-> op, argument |-> Nothing, result |-> Nothing, settings |-> settings,
     typing_times_by_word |-> times, word_weights |-> word_weights,
     words_to_include |-> words, weights_of_words_to_include |-> weights,
     random_words |-> drawn, raised |-> raised, strokes |-> strokes]

PlainCall(op) == Call(op, NoSettings, <<>>, <<>>, <<>>, <<>>, <<>>, "none", <<>>)

\* No call is under way: the caller has taken the last result.
NoCall == PlainCall("none")

\* A call with an argument of its own: a step of parse_chords tried on its
\* own, or record_exercise_result.
ParserCall(op, argument, result) ==
    [PlainCall(op) EXCEPT !.argument = argument, !.result = result]

\* The key scan of parse_chords for one letter and one threshold.
ResolveKey(l, min_order) ==
    /\ call = NoCall
    /\ call' = ParserCall("matching_key", [letter |-> l, min_order |-> min_order],
                          [matching_key |-> MatchingKey(l, min_order)])
    /\ UNCHANGED <<steno_dict, reverse_dict, exercise_history, user_log, frame_vars>>

\* parse_chords applied to one notation.
ParseChords(stroke) ==
    /\ call = NoCall
    /\ call' = ParserCall("parse_chords", [stroke |-> stroke], parse_chords(stroke))
    /\ UNCHANGED <<steno_dict, reverse_dict, exercise_history, user_log, frame_vars>>

\* The loop of parse_chords over the letters of one segment, one pass of the
\* loop at a time: letters counts the letters passed, matching_keys lists
\* the keys found for them, raised tells that the assertion has failed.
ChordLoop(chord, letters, min_order, keys, matching_keys, raised) ==
    [PlainCall("chord_loop") EXCEPT
        !.argument = [chord |-> chord],
        !.result = [letters |-> letters, min_order |-> min_order, keys |-> keys,
                    matching_keys |-> matching_keys],
        !.raised = raised]

\* The loop over the letters is still running.
InChordLoop ==
    /\ call.op = "chord_loop"
    /\ call.raised = "none"
    /\ call.result.letters < Len(call.argument.chord)

\* min_order = -1 and keys = set(), before the first letter.
BeginChord(chord) ==
    /\ call = NoCall
    /\ call' = ChordLoop(chord, 0, -1, {}, <<>>, "none")
    /\ UNCHANGED <<steno_dict, reverse_dict, exercise_history, user_log, frame_vars>>

\* One pass of the loop: a "-" sets the threshold to STAR, any other letter
\* is looked up above the threshold, asserted to be found, and added.
NextLetter ==
    /\ InChordLoop
    /\ LET chord == call.argument.chord
           now == call.result
           l == chord[now.letters + 1]
           matching_key == MatchingKey(l, now.min_order)
       IN call' = IF l = "-"
                  THEN ChordLoop(chord, now.letters + 1, STAR, now.keys,
                                 now.matching_keys, "none")
                  ELSE IF matching_key = NoKey
                  THEN ChordLoop(chord, now.letters + 1, now.min_order, now.keys,
                                 now.matching_keys, "AssertionError")
                  ELSE ChordLoop(chord, now.letters + 1, KeyOrder[matching_key + 1],
                                 now.keys \cup {matching_key},
                                 Append(now.matching_keys, matching_key), "none")
    /\ UNCHANGED <<steno_dict, reverse_dict, exercise_history, user_log, frame_vars>>

\* The generator has not been constructed.
NotConstructed == PlainCall("not constructed")

(***************************************************************************)
(* The text of a document, as json.dump writes it and json.load reads it,  *)
(* in tokens: a bracket, a comma, or a whole scalar.  A file whose writing *)
(* stopped early holds the first tokens of the text and perhaps a part of  *)
(* the next one.                                                           *)
(***************************************************************************)
Punct(mark) == [t |-> "punct", v |-> mark]

\* A token of which only a part was written and which is no JSON lexeme: an
\* unterminated string, a part of true or false, a number ending in ".".
BrokenToken == [t |-> "broken", v |-> ""]

IsPunct(token, mark) == token.t = "punct" /\ token.v = mark

IsScalar(token) == token.t \in {"int", "float", "bool", "str"}

\* json.dump: a list is written as its elements between brackets, with
\* commas between them; a scalar as one token.
RECURSIVE DumpElements(_, _)
RECURSIVE json_dump(_)
DumpElements(elements, i) ==
    IF i > Len(elements) THEN <<>>
    ELSE (IF i > 1 THEN <<Punct(",")>> ELSE <<>>)
            \o json_dump(elements[i]) \o DumpElements(elements, i + 1)

json_dump(object) ==
    IF object.t = "list"
    THEN <<Punct("[")>> \o DumpElements(object.v, 1) \o <<Punct("]")>>
    ELSE <<object>>

\* What a part of a token reads as: no lexeme at all, or, for a number, a
\* shorter number (0 of 0.5, 1 of 15).
PartsOf(token) ==
    IF token.t \in {"int", "float"} THEN {BrokenToken, JInt(0)} ELSE {BrokenToken}

\* The texts a file can hold when the writing of tokens stopped early: a
\* proper prefix of the tokens, or such a prefix and a part of the token
\* after it.
Interrupted(tokens) ==
    {SubSeq(tokens, 1, n) : n \in 0..(Len(tokens) - 1)}
        \cup UNION {{Append(SubSeq(tokens, 1, n), part) : part \in PartsOf(tokens[n + 1])} :
                       n \in {m \in 0..(Len(tokens) - 1) : IsScalar(tokens[m + 1])}}

TextFile(tokens) == File("text", [t |-> "text", v |-> tokens])

\* json.load: the decoder reads one value and then requires the end of the
\* text.  stack holds the elements read so far of every list still open,
\* mode what may come next, value the value once it is complete.  Every
\* failure is a JSONDecodeError.
JsonStep(state, token) ==
    LET stack == state.stack
        mode == state.mode
        opens == mode \in {"value", "value or close"} /\ IsPunct(token, "[")
        closes == mode \in {"value or close", "after value"} /\ IsPunct(token, "]")
        scalar == mode \in {"value", "value or close"} /\ IsScalar(token)
        read == IF closes THEN JList(stack[Len(stack)]) ELSE token
        outer == IF closes THEN SubSeq(stack, 1, Len(stack) - 1) ELSE stack
    IN IF opens THEN [state EXCEPT !.stack = Append(stack, <<>>), !.mode = "value or close"]
       ELSE IF closes \/ scalar
       THEN (IF outer = <<>>
             THEN [state EXCEPT !.stack = outer, !.mode = "end", !.value = read]
             ELSE [state EXCEPT !.stack = [outer EXCEPT ![Len(outer)] = Append(@, read)],
                                !.mode = "after value"])
       ELSE IF mode = "after value" /\ IsPunct(token, ",")
       THEN [state EXCEPT !.mode = "value"]
       ELSE [state EXCEPT !.mode = "failed"]

\* The tokens lo..hi read in turn from a state, one half after the other.
RECURSIVE JsonScan(_, _, _, _)
JsonScan(tokens, lo, hi, state) ==
    IF lo > hi \/ state.mode = "failed" THEN state
    ELSE IF lo = hi THEN JsonStep(state, tokens[lo])
    ELSE LET mid == (lo + hi) \div 2
             half == JsonScan(tokens, lo, mid, state)
         IN JsonScan(tokens, mid + 1, hi, half)

json_load(tokens) ==
    LET start == [stack |-> <<>>, mode |-> "value", value |-> NoDocument]
        final == JsonScan(tokens, 1, Len(tokens), start)
    IN IF final.mode = "end" THEN Ok(final.value) ELSE Raised("JSONDecodeError")

(***************************************************************************)
(* exercise_generator.py, __init__: the dictionary is read and indexed,    *)
(* then the history file is read.                                          *)
(***************************************************************************)
\* open() and json.load() of the history file, then from_json_object.
LoadHistory(file) ==
    CASE file.kind = "missing" -> Raised("FileNotFoundError")
      [] file.kind = "unopenable" -> Raised("PermissionError")
      [] file.kind = "undecodable" -> Raised("UnicodeDecodeError")
      [] file.kind = "malformed" -> Raised("JSONDecodeError")
      [] file.kind = "json" -> from_json_object(file.document, "List[ExerciseResult]")
      [] file.kind = "text" ->
            LET decoded == json_load(file.document.v)
            IN IF decoded.raised = "none"
               THEN from_json_object(decoded.value, "List[ExerciseResult]")
               ELSE decoded

\* An except clause that names IOError alone.
CaughtIOError == {"FileNotFoundError", "PermissionError"}

\* except (json.JSONDecodeError, IOError): IOError is OSError, the base of
\* FileNotFoundError and PermissionError.
Caught == {"JSONDecodeError", "FileNotFoundError", "PermissionError"}

Construct(dict) ==
    LET loaded == LoadHistory(user_log)
    IN /\ call = NotConstructed
       /\ steno_dict' = dict
       /\ reverse_dict' = ReverseDict(dict)
       /\ exercise_history' = IF loaded.raised = "none" THEN loaded.value ELSE <<>>
       /\ call' = [PlainCall("__init__") EXCEPT
                      !.raised = IF loaded.raised \in Caught THEN "none" ELSE loaded.raised]
       /\ UNCHANGED <<user_log, frame_vars>>

GenerateExercise(exercise_settings) ==
    LET exercise_length == exercise_settings.exercise_size
        words_to_include == WordsToInclude(exercise_settings.enabled_lessons)
        typing_times_by_word == TypingTimesByWord(exercise_history)
        word_weights == compute_word_weights(exercise_history)
        weights == WeightsOfWordsToInclude(words_to_include, word_weights)
        raises == ChoicesRaises(words_to_include, weights)
    IN /\ call = NoCall
       /\ IF raises # "none"
          THEN /\ call' = Call("generate_exercise", exercise_settings,
                               typing_times_by_word, word_weights, words_to_include,
                               weights, <<>>, raises, <<>>)
               /\ reverse_dict' = reverse_dict
          ELSE \E random_words \in Choices(words_to_include, weights, exercise_length) :
                  LET built == BuildStrokes(random_words, 1, reverse_dict, <<>>)
                  IN /\ call' = Call("generate_exercise", exercise_settings,
                                     typing_times_by_word, word_weights,
                                     words_to_include, weights, random_words,
                                     built.raised, built.strokes)
                     /\ reverse_dict' = built.reverse_dict
       /\ UNCHANGED <<steno_dict, exercise_history, user_log, frame_vars>>

\* _compute_word_weights called on its own.
ComputeWordWeights ==
    /\ call = NoCall
    /\ call' = Call("_compute_word_weights", NoSettings,
                    TypingTimesByWord(exercise_history),
                    compute_word_weights(exercise_history),
                    <<>>, <<>>, <<>>, "none", <<>>)
    /\ UNCHANGED <<steno_dict, reverse_dict, exercise_history, user_log, frame_vars>>

(***************************************************************************)
(* exercise_generator.py: record_exercise_result, clear_exercise_history,  *)
(* each followed by _save_exercise_history.                                *)
(***************************************************************************)
\* A variant of RecordExerciseResult that writes the new result alone.
RecordExerciseResultAlone(exercise_result) ==
    /\ call = NoCall
    /\ exercise_history' = Append(exercise_history, exercise_result)
    /\ user_log' = JsonFile(to_json_object(<<exercise_result>>))
    /\ call' = ParserCall("record_exercise_result",
                          [exercise_result |-> exercise_result], Nothing)
    /\ UNCHANGED <<steno_dict, reverse_dict, frame_vars>>

RecordExerciseResult(exercise_result) ==
    /\ call = NoCall
    /\ exercise_history' = Append(exercise_history, exercise_result)
    /\ user_log' = JsonFile(to_json_object(exercise_history'))
    /\ call' = ParserCall("record_exercise_result",
                          [exercise_result |-> exercise_result], Nothing)
    /\ UNCHANGED <<steno_dict, reverse_dict, frame_vars>>

ClearExerciseHistory ==
    /\ call = NoCall
    /\ exercise_history' = <<>>
    /\ user_log' = JsonFile(to_json_object(exercise_history'))
    /\ call' = PlainCall("clear_exercise_history")
    /\ UNCHANGED <<steno_dict, reverse_dict, frame_vars>>

\* The files _save_exercise_history can leave behind when the writing of a
\* history stops before its end.
InterruptedSaves(history) ==
    {TextFile(text) : text \in Interrupted(json_dump(to_json_object(history)))}

\* The steps of _save_exercise_history that can fail, and what each raises:
\* mkdir and open before the file is touched, to_json_object and json.dump
\* after open(..., "w") has emptied it.
SaveFailures ==
    [mkdir |-> "OSError", open |-> "OSError", serialization |-> "TypeError", write |-> "OSError"]

\* The file after _save_exercise_history has failed at a step.
FilesAfterFailure(failure, history) ==
    CASE failure \in {"mkdir", "open"} -> {user_log}
      [] failure = "serialization" -> {TextFile(<<>>)}
      [] failure = "write" -> InterruptedSaves(history)

\* record_exercise_result when _save_exercise_history raises.
RecordExerciseResultFailing(exercise_result, failure) ==
    /\ call = NoCall
    /\ exercise_history' = Append(exercise_history, exercise_result)
    /\ user_log' \in FilesAfterFailure(failure, exercise_history')
    /\ call' = [ParserCall("record_exercise_result",
                           [exercise_result |-> exercise_result], Nothing)
                   EXCEPT !.raised = SaveFailures[failure]]
    /\ UNCHANGED <<steno_dict, reverse_dict, frame_vars>>

\* clear_exercise_history when _save_exercise_history raises.
ClearExerciseHistoryFailing(failure) ==
    /\ call = NoCall
    /\ exercise_history' = <<>>
    /\ user_log' \in FilesAfterFailure(failure, exercise_history')
    /\ call' = [PlainCall("clear_exercise_history") EXCEPT !.raised = SaveFailures[failure]]
    /\ UNCHANGED <<steno_dict, reverse_dict, frame_vars>>

\* The process ends while record_exercise_result or clear_exercise_history
\* is writing the file: the generator is gone and the file is left as far as
\* it was written.
ProcessEnds(history) ==
    /\ call = NoCall
    /\ user_log' \in InterruptedSaves(history)
    /\ exercise_history' = <<>>
    /\ steno_dict' = <<>>
    /\ reverse_dict' = <<>>
    /\ call' = NotConstructed
    /\ UNCHANGED frame_vars

RecordExerciseResultInterrupted(exercise_result) ==
    ProcessEnds(Append(exercise_history, exercise_result))

ClearExerciseHistoryInterrupted == ProcessEnds(<<>>)

\* The caller takes the result of the call; the next call can be made.
\* There is no generator to call before __init__ or after it has raised.
Return ==
    /\ call # NoCall
    /\ call # NotConstructed
    /\ ~(call.op = "__init__" /\ call.raised # "none")
    /\ ~InChordLoop
    /\ call' = NoCall
    /\ UNCHANGED <<steno_dict, reverse_dict, exercise_history, user_log, frame_vars>>

(***************************************************************************)
(* ui_elements.py, StenoExerciseFrame and its WordInExercise.  The frame   *)
(* and its listener are handled together as [frame, listener]; a word is   *)
(* words[index + 1].  The contents of an entry is a sequence of            *)
(* characters.                                                             *)
(***************************************************************************)
\* WordInExercise.__init__: an empty, disabled entry.
WordInExercise(index, stroke) ==
    [index |-> index, stroke |-> stroke, text_entry_var |-> <<>>, state |-> "disabled",
     incorrectly_typed |-> FALSE, finished |-> FALSE, finish_time |-> 0]

text_to_type(word) == <<" ">> \o CharsOf[word.stroke.written_word]

\* StenoExerciseFrame.__init__, and a listener that has been told nothing.
NewFrame ==
    [words |-> <<>>, word_i |-> 0, exercise_begin_time |-> 0, exercise_begin_date |-> Nothing]

NewListener == [chord_preview |-> Nothing, finish_exercise |-> <<>>]

\* No settings dialog has been opened.
NoDialog ==
    [open |-> FALSE, initial_settings |-> Nothing, exercise_size_entry |-> <<>>,
     lesson_checkboxes |-> <<>>, history_cleared |-> FALSE]

NoExercise ==
    /\ exercise_frame = NewFrame
    /\ listener = NewListener
    /\ monotonic = 0
    /\ settings_dialog = NoDialog

\* A variant of has_next_word that takes the last word but one for the last.
HasWordAfterNext(w, index) == index + 2 < Len(w.frame.words)

has_next_word(w, index) == index + 1 < Len(w.frame.words)

SetWord(w, index, word) == [w EXCEPT !.frame.words[index + 1] = word]

\* listener.set_chord_preview.
SetChordPreview(w, chord) == [w EXCEPT !.listener.chord_preview = chord]

show_chord_preview(w, index) ==
    SetChordPreview(w, w.frame.words[index + 1].stroke.chord_sequence[1])

\* A variant of begin that leaves word_i as it is.
BeginKeepingWordIndex(w, index) ==
    show_chord_preview([w EXCEPT !.frame.words[index + 1].state = "normal"], index)

\* begin: the word becomes the active one and its entry can be edited.
begin(w, index) ==
    show_chord_preview(
        [w EXCEPT !.frame.word_i = index, !.frame.words[index + 1].state = "normal"], index)

\* A variant of on_completely_typed that does not take the time.
OnCompletelyTypedWithoutTime(w, index, now) ==
    LET done == [w EXCEPT !.frame.words[index + 1].finished = TRUE]
    IN IF has_next_word(w, index) THEN show_chord_preview(done, index + 1)
       ELSE SetChordPreview(done, Nothing)

on_completely_typed(w, index, now) ==
    LET done == [w EXCEPT !.frame.words[index + 1].finish_time = now,
                          !.frame.words[index + 1].finished = TRUE]
    IN IF has_next_word(w, index) THEN show_chord_preview(done, index + 1)
       ELSE SetChordPreview(done, Nothing)

on_incorrectly_typed(w, index) ==
    show_chord_preview([w EXCEPT !.frame.words[index + 1].incorrectly_typed = TRUE,
                                 !.frame.words[index + 1].finished = FALSE], index)

\* A variant of WordResultsFrom that measures every word from the begin time.
RECURSIVE WordResultsFromBegin(_, _, _)
WordResultsFromBegin(words, i, last_time) ==
    IF i > Len(words) THEN <<>>
    ELSE <<ExerciseWordResult(words[i].stroke, ~words[i].incorrectly_typed,
                              <<words[i].finish_time - last_time, 1>>)>>
            \o WordResultsFromBegin(words, i + 1, last_time)

\* The loop of _on_finish_exercise from the i-th word on.
RECURSIVE WordResultsFrom(_, _, _)
WordResultsFrom(words, i, last_time) ==
    IF i > Len(words) THEN <<>>
    ELSE <<ExerciseWordResult(words[i].stroke, ~words[i].incorrectly_typed,
                              <<words[i].finish_time - last_time, 1>>)>>
            \o WordResultsFrom(words, i + 1, words[i].finish_time)

on_finish_exercise(w) ==
    LET word_results == WordResultsFrom(w.frame.words, 1, w.frame.exercise_begin_time)
        exercise_result == ExerciseResult(w.frame.exercise_begin_date, word_results)
    IN [w EXCEPT !.listener.finish_exercise = Append(@, exercise_result)]

\* s[:n] and s[n:] of Python.
Prefix(s, n) == SubSeq(s, 1, IF n < Len(s) THEN n ELSE Len(s))

Suffix(s, n) == SubSeq(s, n + 1, Len(s))

\* A variant of CorrectlyTyped that compares with the text alone, without
\* the whitespace after it.
CorrectlyTypedWithoutSpace(new_contents, text) ==
    new_contents = Prefix(text, Len(new_contents))

\* correctly_typed: the contents is a beginning of the text to type and one
\* whitespace.
CorrectlyTyped(new_contents, text) ==
    new_contents = Prefix(text \o <<" ">>, Len(new_contents))

\* A variant of AdvanceToNextWord that advances as soon as the word is
\* completely typed.
AdvanceWhenCompletelyTyped(completely_typed, remaining_chars_to_type, has_next) ==
    completely_typed

AdvanceToNextWord(completely_typed, remaining_chars_to_type, has_next) ==
    (completely_typed /\ remaining_chars_to_type <= 0) \/ ~has_next

\* on_contents_update of the word at index, at the time now.  A write to the
\* variable of an entry runs the trace of that variable, which calls
\* on_contents_update, unless the write is made from within that trace:
\* Tcl suspends the traces of a variable while one of them runs.  in_trace
\* tells that the call is made by the trace of this word's variable.
\* _set_overflown_content writes the next word's variable, which runs its
\* trace, and then calls its on_contents_update once more.
RECURSIVE on_contents_update(_, _, _, _)
on_contents_update(w, index, in_trace, now) ==
    LET word == w.frame.words[index + 1]
        new_contents == word.text_entry_var
        n_typed_chars == Len(new_contents)
        correctly_typed == CorrectlyTyped(new_contents, text_to_type(word))
        remaining_chars_to_type == Len(text_to_type(word)) + 1 - n_typed_chars
        completely_typed == correctly_typed /\ remaining_chars_to_type <= 1
        advance_to_next_word ==
            AdvanceToNextWord(completely_typed, remaining_chars_to_type,
                              has_next_word(w, index))
    IN IF ~correctly_typed THEN on_incorrectly_typed(w, index)
       ELSE IF ~completely_typed THEN w
       ELSE LET typed == IF ~word.finished THEN on_completely_typed(w, index, now) ELSE w
                overflown_content == Suffix(new_contents, Len(text_to_type(word)))
            IN IF ~advance_to_next_word THEN typed
               ELSE IF Len(overflown_content) > 0 /\ ~has_next_word(w, index)
               THEN [typed EXCEPT !.frame.words[index + 1].incorrectly_typed = TRUE]
               ELSE LET written ==
                            [typed EXCEPT !.frame.words[index + 1].text_entry_var =
                                              text_to_type(word)]
                        reset == IF in_trace THEN written
                                 ELSE on_contents_update(written, index, TRUE, now)
                    IN IF ~has_next_word(w, index) THEN on_finish_exercise(reset)
                       ELSE LET disabled ==
                                    [reset EXCEPT !.frame.words[index + 1].state = "disabled"]
                                flown ==
                                    [disabled EXCEPT !.frame.words[index + 2].text_entry_var =
                                                         overflown_content]
                                traced == on_contents_update(flown, index + 1, TRUE, now)
                                called == on_contents_update(traced, index + 1, FALSE, now)
                            IN begin(called, index + 1)

\* The words set_exercise creates for the strokes.
RECURSIVE NewWords(_, _)
NewWords(strokes, i) ==
    IF i > Len(strokes) THEN <<>>
    ELSE <<WordInExercise(i - 1, strokes[i])>> \o NewWords(strokes, i + 1)

\* set_exercise at the time now and the date today: the old words go, the
\* new ones are made, and the first one begins.  With no stroke there is no
\* first word and words[0] raises IndexError: word_i stays what it was.
set_exercise(w, strokes, now, today) ==
    LET made == [w EXCEPT !.frame.words = NewWords(strokes, 1),
                          !.frame.exercise_begin_time = now,
                          !.frame.exercise_begin_date = today]
    IN IF strokes = <<>> THEN made ELSE begin(made, 0)

\* The frame and the listener as one value, and the step to a new one.
World == [frame |-> exercise_frame, listener |-> listener]

Becomes(w) ==
    /\ exercise_frame' = w.frame
    /\ listener' = w.listener

\* Largest number of words of an exercise set in the frame, latest reading
\* of the clock, and largest number of reports of a finished exercise.
MaxFrameWords == 2
MaxTime == 2
MaxReports == 1

RECURSIVE StrokeListsUpTo(_)
StrokeListsUpTo(n) ==
    IF n = 0 THEN {<<>>}
    ELSE LET shorter == StrokeListsUpTo(n - 1)
         IN shorter \cup {Append(strokes, stroke) : strokes \in shorter, stroke \in RecordedStrokes}

Exercises == StrokeListsUpTo(MaxFrameWords)

\* What a user can leave in the entry of a word: a beginning of the text to
\* type and its whitespace, alone or followed by one more character.
TypedContents(word) ==
    {Prefix(text_to_type(word) \o <<" ">>, n) \o rest :
        n \in 0..(Len(text_to_type(word)) + 1), rest \in {<<>>, <<" ">>, <<"x">>}}

\* The listener is handed a new exercise for the frame.
SetExercise(strokes) ==
    /\ Becomes(set_exercise([frame |-> exercise_frame, listener |-> NewListener],
                            strokes, monotonic, CHOOSE today \in Timestamps : TRUE))
    /\ call' = [ParserCall("set_exercise", [strokes |-> strokes], Nothing)
                   EXCEPT !.raised = IF strokes = <<>> THEN "IndexError" ELSE "none"]
    /\ UNCHANGED <<steno_dict, reverse_dict, exercise_history, user_log, monotonic,
                   settings_dialog>>

\* The user changes the contents of an entry that can be edited: tkinter
\* writes the variable and the trace calls on_contents_update.
TypeContents(index, new_contents) ==
    /\ index + 1 \in 1..Len(exercise_frame.words)
    /\ exercise_frame.words[index + 1].state = "normal"
    /\ new_contents # exercise_frame.words[index + 1].text_entry_var
    /\ Len(listener.finish_exercise) < MaxReports
    /\ Becomes(on_contents_update(
                   [World EXCEPT !.frame.words[index + 1].text_entry_var = new_contents],
                   index, TRUE, monotonic))
    /\ call' = ParserCall("on_contents_update",
                          [index |-> index, new_contents |-> new_contents], Nothing)
    /\ UNCHANGED <<steno_dict, reverse_dict, exercise_history, user_log, monotonic,
                   settings_dialog>>

\* Time passes.
Tick ==
    /\ monotonic < MaxTime
    /\ monotonic' = monotonic + 1
    /\ UNCHANGED <<steno_dict, reverse_dict, exercise_history, user_log, call,
                   exercise_frame, listener, settings_dialog>>

FrameNext ==
    \/ \E strokes \in Exercises : SetExercise(strokes)
    \/ \E index \in 0..(MaxFrameWords - 1) :
          /\ index < Len(exercise_frame.words)
          /\ \E new_contents \in TypedContents(exercise_frame.words[index + 1]) :
                TypeContents(index, new_contents)
    \/ Tick

(***************************************************************************)
(* ui_elements.py, StenoExerciseSettingsDialog.  The text of the size      *)
(* entry is a sequence of characters; what the dialog tells its listener   *)
(* is kept in the call.                                                    *)
(***************************************************************************)
DecimalDigits == <<"0", "1", "2", "3", "4", "5", "6", "7", "8", "9">>

IsDigit(char) == \E i \in 1..Len(DecimalDigits) : DecimalDigits[i] = char

DigitValue(char) == (CHOOSE i \in 1..Len(DecimalDigits) : DecimalDigits[i] = char) - 1

\* str(n) of an integer.
RECURSIVE StrOfInt(_)
StrOfInt(n) ==
    IF n < 0 THEN <<"-">> \o StrOfInt(-n)
    ELSE IF n < 10 THEN <<DecimalDigits[n + 1]>>
    ELSE StrOfInt(n \div 10) \o <<DecimalDigits[(n % 10) + 1]>>

\* text.strip(): the whitespace at both ends goes.
RECURSIVE Strip(_)
Strip(text) ==
    IF text = <<>> THEN text
    ELSE IF Head(text) = " " THEN Strip(Tail(text))
    ELSE IF text[Len(text)] = " " THEN Strip(SubSeq(text, 1, Len(text) - 1))
    ELSE text

\* The digits of an integer literal from the i-th character on: at least
\* one digit, and single underscores between digits only.
RECURSIVE ScanDigits(_, _, _, _)
ScanDigits(text, i, value, after_digit) ==
    IF i > Len(text) THEN (IF after_digit THEN Ok(value) ELSE Raised("ValueError"))
    ELSE IF IsDigit(text[i]) THEN ScanDigits(text, i + 1, 10 * value + DigitValue(text[i]), TRUE)
    ELSE IF text[i] = "_" /\ after_digit THEN ScanDigits(text, i + 1, value, FALSE)
    ELSE Raised("ValueError")

\* int(text): whitespace around the literal is ignored, a sign may come
\* first, and a text that is no integer literal raises ValueError.
IntOfText(text) ==
    LET stripped == Strip(text)
        signed == stripped # <<>> /\ Head(stripped) \in {"-", "+"}
        scanned == ScanDigits(IF signed THEN Tail(stripped) ELSE stripped, 1, 0, FALSE)
    IN IF scanned.raised # "none" THEN scanned
       ELSE IF signed /\ Head(stripped) = "-" THEN Ok(-scanned.value)
       ELSE scanned

\* The checkboxes __init__ makes: one for each lesson of learn_plover_lessons,
\* checked when the lesson is enabled in the initial settings.
RECURSIVE LessonCheckboxes(_, _)
LessonCheckboxes(initial_settings, row) ==
    IF row > Len(Lessons) THEN <<>>
    ELSE <<[lesson |-> Lessons[row],
            var |-> IF Lessons[row] \in Range(initial_settings.enabled_lessons)
                    THEN 1 ELSE 0]>>
            \o LessonCheckboxes(initial_settings, row + 1)

\* StenoExerciseSettingsDialog.__init__.
NewDialog(initial_settings) ==
    [open |-> TRUE, initial_settings |-> initial_settings,
     exercise_size_entry |-> StrOfInt(initial_settings.exercise_size),
     lesson_checkboxes |-> LessonCheckboxes(initial_settings, 1),
     history_cleared |-> FALSE]

\* [lesson for lesson, var in self.lesson_checkboxes if var.get()]
RECURSIVE CheckedLessons(_, _)
CheckedLessons(lesson_checkboxes, i) ==
    IF i > Len(lesson_checkboxes) THEN <<>>
    ELSE (IF lesson_checkboxes[i].var # 0 THEN <<lesson_checkboxes[i].lesson>> ELSE <<>>)
            \o CheckedLessons(lesson_checkboxes, i + 1)

\* A variant of ExerciseSizeOnOk that takes the number as it was typed.
ExerciseSizeAsTyped(dialog) ==
    LET typed == IntOfText(dialog.exercise_size_entry)
    IN IF typed.raised = "ValueError" THEN dialog.initial_settings.exercise_size
       ELSE typed.value

\* exercise_size of _on_ok: max(1, int(...)), and the initial size when the
\* text is no integer.
ExerciseSizeOnOk(dialog) ==
    LET typed == IntOfText(dialog.exercise_size_entry)
    IN IF typed.raised = "ValueError" THEN dialog.initial_settings.exercise_size
       ELSE IF typed.value > 1 THEN typed.value ELSE 1

\* enabled_lessons of _on_ok: the checked lessons, or one lesson when no
\* box is checked (an empty list is false).
EnabledLessonsOnOk(dialog) ==
    LET checked == CheckedLessons(dialog.lesson_checkboxes, 1)
    IN IF checked = <<>> THEN <<"One Syllable Words">> ELSE checked

\* listener.on_settings_dialog_close, with its three arguments in order.
OnSettingsDialogClose(changed_or_cleared, settings_changed, new_settings) ==
    [listener |-> "on_settings_dialog_close", changed_or_cleared |-> changed_or_cleared,
     settings_changed |-> settings_changed, new_settings |-> new_settings]

\* Longest text of the size entry, the characters that can be typed into
\* it, and the settings a dialog is opened with.
MaxSizeChars == 3
SizeChars == {"0", "2", "-", " ", "_", "x"}
DialogSettings ==
    {ExerciseSettings(n, ls) : n \in {0, 2}, ls \in {<<>>, <<Lessons[2]>>, Lessons}}

OpenSettingsDialog(initial_settings) ==
    /\ ~settings_dialog.open
    /\ settings_dialog' = NewDialog(initial_settings)
    /\ call' = ParserCall("StenoExerciseSettingsDialog",
                          [initial_settings |-> initial_settings], Nothing)
    /\ UNCHANGED <<steno_dict, reverse_dict, exercise_history, user_log,
                   exercise_frame, listener, monotonic>>

\* The user types a character at the end of the size entry, or deletes the
\* last one.
TypeSizeCharacter(char) ==
    /\ settings_dialog.open
    /\ Len(settings_dialog.exercise_size_entry) < MaxSizeChars
    /\ settings_dialog' = [settings_dialog EXCEPT !.exercise_size_entry = Append(@, char)]
    /\ UNCHANGED <<steno_dict, reverse_dict, exercise_history, user_log, call,
                   exercise_frame, listener, monotonic>>

DeleteSizeCharacter ==
    /\ settings_dialog.open
    /\ settings_dialog.exercise_size_entry # <<>>
    /\ settings_dialog' =
          [settings_dialog EXCEPT !.exercise_size_entry = SubSeq(@, 1, Len(@) - 1)]
    /\ UNCHANGED <<steno_dict, reverse_dict, exercise_history, user_log, call,
                   exercise_frame, listener, monotonic>>

\* The user clicks the checkbox of a lesson.
ToggleLesson(row) ==
    /\ settings_dialog.open
    /\ row \in 1..Len(settings_dialog.lesson_checkboxes)
    /\ settings_dialog' = [settings_dialog EXCEPT !.lesson_checkboxes[row].var = 1 - @]
    /\ UNCHANGED <<steno_dict, reverse_dict, exercise_history, user_log, call,
                   exercise_frame, listener, monotonic>>

OnClearHistory ==
    /\ settings_dialog.open
    /\ settings_dialog' = [settings_dialog EXCEPT !.history_cleared = TRUE]
    /\ call' = ParserCall("_on_clear_history", Nothing,
                          [listener |-> "on_settings_dialog_clear_history"])
    /\ UNCHANGED <<steno_dict, reverse_dict, exercise_history, user_log,
                   exercise_frame, listener, monotonic>>

OnOk ==
    LET new_settings == ExerciseSettings(ExerciseSizeOnOk(settings_dialog),
                                         EnabledLessonsOnOk(settings_dialog))
        settings_changed == new_settings # settings_dialog.initial_settings
    IN /\ settings_dialog.open
       /\ settings_dialog' = [settings_dialog EXCEPT !.open = FALSE]
       /\ call' = ParserCall("_on_ok", Nothing,
                             OnSettingsDialogClose(
                                 settings_changed \/ settings_dialog.history_cleared,
                                 settings_changed, new_settings))
       /\ UNCHANGED <<steno_dict, reverse_dict, exercise_history, user_log,
                      exercise_frame, listener, monotonic>>

OnCancel ==
    /\ settings_dialog.open
    /\ settings_dialog' = [settings_dialog EXCEPT !.open = FALSE]
    /\ call' = ParserCall("_on_cancel", Nothing,
                          OnSettingsDialogClose(settings_dialog.history_cleared, FALSE,
                                                Nothing))
    /\ UNCHANGED <<steno_dict, reverse_dict, exercise_history, user_log,
                   exercise_frame, listener, monotonic>>

DialogNext ==
    \/ \E initial_settings \in DialogSettings : OpenSettingsDialog(initial_settings)
    \/ \E char \in SizeChars : TypeSizeCharacter(char)
    \/ DeleteSizeCharacter
    \/ \E row \in 1..Len(Lessons) : ToggleLesson(row)
    \/ OnClearHistory
    \/ OnOk
    \/ OnCancel

(***************************************************************************)
(* The generator from its construction on: no history file yet.            *)
(***************************************************************************)
Init ==
    /\ steno_dict = Dictionary
    /\ reverse_dict = ReverseDict(steno_dict)
    /\ exercise_history = <<>>
    /\ user_log = NoFile
    /\ call = NoCall
    /\ NoExercise

Generate == \E exercise_settings \in SettingsInputs : GenerateExercise(exercise_settings)

Record(budget) ==
    \E n \in 1..(budget - RecordedWords(exercise_history)) :
        \E exercise_result \in ResultsOfSize(n) : RecordExerciseResult(exercise_result)

Clear == ClearExerciseHistory

Next == Generate \/ Record(MaxRecordedWords) \/ Clear \/ Return

Spec == Init /\ [][Next]_vars

\* The history and the weights computed from it, without the draw.
HistoryNext == ComputeWordWeights \/ Record(MaxHistoryWords) \/ Clear \/ Return

HistorySpec == Init /\ [][HistoryNext]_vars
\* The weights of given lists of typing times: the dict comprehension of
\* _compute_word_weights applied to a typing_times_by_word of two words.
One == <<1, 1>>
SampleTimes == {Half, One, Two}
MaxSamples == 3
SampleLists == UNION {[1..n -> SampleTimes] : n \in 1..MaxSamples}

WeighTypingTimes ==
    /\ call = NoCall
    /\ \E the \in SampleLists, cat \in SampleLists :
          LET typing_times_by_word == ("the" :> the) @@ ("cat" :> cat)
          IN call' = Call("weight_by_word", NoSettings, typing_times_by_word,
                          WeightByWord(DOMAIN typing_times_by_word, typing_times_by_word),
                          <<>>, <<>>, <<>>, "none", <<>>)
    /\ UNCHANGED <<steno_dict, reverse_dict, exercise_history, user_log, frame_vars>>

WeightNext == WeighTypingTimes \/ Return

WeightSpec == Init /\ [][WeightNext]_vars

\* The generator over a history loaded from a history file that holds one
\* exercise of three words, with typing times that can be as small as Tiny:
\* the weights and the draw.
FloatTimes == {Tiny, Half, Two}

FloatWordResults ==
    {ExerciseWordResult(s, c, t) : s \in RecordedStrokes, c \in BOOLEAN, t \in FloatTimes}

FloatHistories ==
    {<<ExerciseResult(ts, <<ExerciseWordResult(StrokeOfThe, TRUE, Half), second, third>>)>> :
        ts \in Timestamps, second \in FloatWordResults, third \in FloatWordResults}

FloatInit ==
    /\ steno_dict = Dictionary
    /\ reverse_dict = ReverseDict(steno_dict)
    /\ exercise_history \in FloatHistories
    /\ user_log = JsonFile(to_json_object(exercise_history))
    /\ call = NoCall
    /\ NoExercise

FloatNext == Generate \/ ComputeWordWeights \/ Return

FloatSpec == FloatInit /\ [][FloatNext]_vars

(***************************************************************************)
(* The construction of a generator over a dictionary file, with no history *)
(* file.  A dictionary file is a JSON object: its notations are distinct.  *)
(***************************************************************************)
DictNotations == {<<"-", "T">>, <<"1", "-", "T">>, <<"6">>, <<"1", "6">>}
DictWords == {"the", "cat"}
MaxEntries == 3

Dictionaries ==
    UNION {{dict \in [1..n -> {Entry(chord, word) : chord \in DictNotations, word \in DictWords}] :
               \A i \in 1..n : \A j \in 1..n : dict[i].chord = dict[j].chord => i = j} :
           n \in 0..MaxEntries}

IndexInit ==
    /\ steno_dict = <<>>
    /\ reverse_dict = <<>>
    /\ exercise_history = <<>>
    /\ user_log = NoFile
    /\ call = NotConstructed
    /\ NoExercise

IndexNext == (\E dict \in Dictionaries : Construct(dict)) \/ Return

IndexSpec == IndexInit /\ [][IndexNext]_vars

(***************************************************************************)
(* The generator from before its construction, over the dictionary and a   *)
(* history file left by an earlier run or put there by something else.     *)
(***************************************************************************)
TextOfSecond == "2020-03-01 10:00:00"

\* A word result as the program writes it, with the keys given.
WordDocument(key_values, word) ==
    JList(<< JList(<<JList(<<JList(<<JList(key_values)>>)>>), JStr(word)>>),
             JBool(TRUE), JFloat(Half) >>)

\* Well-formed JSON documents: what the program wrote for a history, and
\* documents of another shape.
SavedDocuments ==
    { JList(<<>>),
      JList(<<JList(<<JStr(TextOfSecond), JList(<<>>)>>)>>),
      JList(<<JList(<<JStr(TextOfSecond), JList(<<WordDocument(<<JInt(T_R)>>, "the")>>)>>)>>),
      to_json_object(<<ExerciseResult(Datetime("2020-03-01", "10:00:00", 250000),
                                      <<ExerciseWordResult(StrokeOfCat, TRUE, Two)>>)>>) }

OtherDocuments ==
    { JObject(<<>>),
      JInt(5),
      JStr("the"),
      JList(<<JList(<<JStr(TextOfSecond)>>)>>),
      JList(<<JList(<<JStr("the"), JList(<<>>)>>)>>),
      JList(<<JList(<<JStr(TextOfSecond),
                      JList(<<WordDocument(<<JInt(Z_R + 1)>>, "the")>>)>>)>>) }

LogFiles ==
    {NoFile, File("unopenable", NoDocument), File("undecodable", NoDocument),
     File("malformed", NoDocument)}
        \cup {JsonFile(document) : document \in SavedDocuments \cup OtherDocuments}

\* Largest number of word results in the history under LogSpec.
MaxLogWords == 2

LogInit ==
    /\ steno_dict = <<>>
    /\ reverse_dict = <<>>
    /\ exercise_history = <<>>
    /\ user_log \in LogFiles
    /\ call = NotConstructed
    /\ NoExercise

\* json.load of the history file and from_json_object on what it returns,
\* as __init__ calls them, with the generator at rest.
FromJsonObject ==
    /\ call = NoCall
    /\ user_log.kind = "json"
    /\ call' = ParserCall("from_json_object", [object |-> user_log.document],
                          from_json_object(user_log.document, "List[ExerciseResult]"))
    /\ UNCHANGED <<steno_dict, reverse_dict, exercise_history, user_log, frame_vars>>

LogNext ==
    Construct(Dictionary) \/ Record(MaxLogWords) \/ Clear \/ FromJsonObject \/ Return

LogSpec == LogInit /\ [][LogNext]_vars

\* The same, with saves that fail and saves that the end of the process
\* interrupts.
SaveResults ==
    { ExerciseResult(Datetime("2020-03-01", "10:00:00", 250000),
                     <<ExerciseWordResult(StrokeOfThe, TRUE, Half)>>),
      ExerciseResult(Datetime("2020-03-01", "10:00:00", 250000),
                     <<ExerciseWordResult(StrokeOfCat, FALSE, Two),
                       ExerciseWordResult(StrokeOfThe, TRUE, Half)>>) }

\* Largest number of exercise results in the history under SaveSpec.
MaxSaveResults == 2

SaveNext ==
    \/ Construct(Dictionary)
    \/ \E exercise_result \in SaveResults :
          /\ Len(exercise_history) < MaxSaveResults
          /\ \/ RecordExerciseResult(exercise_result)
             \/ \E failure \in DOMAIN SaveFailures :
                   RecordExerciseResultFailing(exercise_result, failure)
             \/ RecordExerciseResultInterrupted(exercise_result)
    \/ Clear
    \/ \E failure \in DOMAIN SaveFailures : ClearExerciseHistoryFailing(failure)
    \/ ClearExerciseHistoryInterrupted
    \/ Return

SaveSpec == LogInit /\ [][SaveNext]_vars

(***************************************************************************)
(* parse_chords and its key scan on notations of their own, beside the     *)
(* generator that calls them.                                              *)
(***************************************************************************)
\* The letters of the keys, and two characters that are on no key.
Letters == {letter(key) : key \in StenoKeys} \cup {"6", "X"}

\* The values min_order takes: -1 at the start of a chord, then key orders.
Thresholds == -1..Z_R

\* Largest number of keys of a chord whose notation is parsed.
MaxChordKeys == 2

RECURSIVE KeySetsUpTo(_)
KeySetsUpTo(n) ==
    IF n = 0 THEN {{}}
    ELSE LET smaller == KeySetsUpTo(n - 1)
         IN smaller \cup {keys \cup {key} : keys \in smaller, key \in StenoKeys}

KeySets == KeySetsUpTo(MaxChordKeys)

\* The keys of a set in increasing steno order.
RECURSIVE KeysInOrder(_)
KeysInOrder(keys) ==
    IF keys = {} THEN <<>>
    ELSE LET first == CHOOSE key \in keys :
                         \A other \in keys : KeyOrder[key + 1] <= KeyOrder[other + 1]
         IN <<first>> \o KeysInOrder(keys \ {first})

RECURSIVE LettersOf(_)
LettersOf(key_list) ==
    IF key_list = <<>> THEN <<>> ELSE <<letter(Head(key_list))>> \o LettersOf(Tail(key_list))

\* The notation of a key set: its letters in steno order, with a "-" before
\* the first key whose order is at least from, when there is such a key and
\* from is a key order.
Notation(keys, from) ==
    LET before == {key \in keys : KeyOrder[key + 1] < from}
        after == keys \ before
    IN IF from > Z_R \/ after = {} THEN LettersOf(KeysInOrder(keys))
       ELSE LettersOf(KeysInOrder(before)) \o <<"-">> \o LettersOf(KeysInOrder(after))

\* No "-", a "-" before the first key at or after STAR, a "-" before the
\* first key after STAR.
NoDash == Z_R + 1
DashPlaces == {NoDash, KeyOrder[STAR + 1], KeyOrder[STAR + 1] + 1}

ChordCases ==
    {[keys |-> keys, dash |-> from, stroke |-> Notation(keys, from)] :
        keys \in KeySets, from \in DashPlaces}

\* Notations with a repeated letter, letters out of steno order, characters
\* on no key, several chords, empty chords.
OtherNotations ==
    { <<"T", "T">>, <<"T", "T", "T">>, <<"Z", "A">>, <<"K", "K">>, <<"X">>, <<"K", "6">>,
      <<"S", "/", "Z", "A">>, <<"K", "A", "T", "/", "-", "T">>, <<"K", "/", "/", "T">>,
      <<"S", "-", "S">>, <<"-", "S", "S">>, <<"A", "-", "A">>,
      <<"E", "-", "E">>, <<"-", "T", "-", "T">>, <<"F", "-", "E">>, <<"-", "F", "-", "E">>,
      <<"T", "-", "-", "T">>, <<"*", "-", "E">>,
      <<>>, <<"-">>, <<"/">>, <<"/", "T">>, <<"T", "/">>, <<"K", "/", "-">>,
      <<"X", "/", "T">>, <<"T", "/", "X">> }

Notations == {c.stroke : c \in ChordCases} \cup OtherNotations

\* The "/"-segments of the notations.
Segments == UNION {Range(Split(stroke)) : stroke \in Notations}

ParseNext ==
    \/ \E l \in Letters, min_order \in Thresholds : ResolveKey(l, min_order)
    \/ \E stroke \in Notations : ParseChords(stroke)
    \/ \E chord \in Segments : BeginChord(chord)
    \/ NextLetter
    \/ Generate
    \/ Return

ParseSpec == Init /\ [][ParseNext]_vars

\* The parser of gui.py applied to one notation.
ParseChordsInline(stroke) ==
    /\ call = NoCall
    /\ call' = ParserCall("_generate_exercise", [stroke |-> stroke], InlineParseChords(stroke))
    /\ UNCHANGED <<steno_dict, reverse_dict, exercise_history, user_log, frame_vars>>

\* The two parsers side by side, on the same notations.
InlineNext ==
    \/ \E stroke \in Notations : ParseChordsInline(stroke)
    \/ \E stroke \in Notations : ParseChords(stroke)
    \/ Return

InlineSpec == Init /\ [][InlineNext]_vars

\* The exercise frame on its own: exercises are set, entries are typed into,
\* time passes.
FrameSpec == Init /\ [][FrameNext]_vars

DialogSpec == Init /\ [][DialogNext]_vars

(***************************************************************************)
(* What the claims speak of, stated from the dictionary, the lesson table  *)
(* and the history themselves.                                             *)
(***************************************************************************)
Generated == call.op = "generate_exercise"
Returned == Generated /\ call.raised = "none"

\* The words of the enabled lessons.
EnabledWords(settings) ==
    UNION {Range(learn_plover_lesson_words[lesson]) : lesson \in Range(settings.enabled_lessons)}

\* The dictionary entries of a word whose notation has none of 0-5, 7-9.
EligibleEntries(word) ==
    {i \in 1..Len(steno_dict) :
        /\ steno_dict[i].word = word
        /\ \A j \in 1..Len(steno_dict[i].chord) :
              steno_dict[i].chord[j] \notin {"0", "1", "2", "3", "4", "5", "7", "8", "9"}}

\* The first of them in dictionary iteration order.
FirstEligible(word) ==
    steno_dict[CHOOSE i \in EligibleEntries(word) : \A j \in EligibleEntries(word) : i <= j].chord

Resolvable(word) ==
    EligibleEntries(word) # {} /\ ParseNotation(FirstEligible(word)).ok

\* The places <<exercise, position>> of the history.
Places(history) ==
    UNION {{<<e, i>> : i \in 1..Len(history[e].words)} : e \in 1..Len(history)}

ResultAt(history, p) == history[p[1]].words[p[2]]

\* The places whose word result is of the word, is not first in its exercise,
\* and is typed correctly.
QualifyingPlaces(history, word) ==
    {p \in Places(history) :
        /\ p[2] >= 2
        /\ ResultAt(history, p).is_typed_correctly
        /\ ResultAt(history, p).stroke.written_word = word}

\* The number of places of Q up to and including p, in history order.
Rank(Q, p) ==
    Cardinality({q \in Q : q[1] < p[1] \/ (q[1] = p[1] /\ q[2] <= p[2])})

\* The sum of 1/typing_time over the places of Q.
RECURSIVE SumOfInversesOver(_, _)
SumOfInversesOver(history, Q) ==
    IF Q = {} THEN RZero
    ELSE LET p == CHOOSE q \in Q : TRUE
         IN RAdd(RInv(ResultAt(history, p).typing_time),
                 SumOfInversesOver(history, Q \ {p}))

AllWords == {"the", "cat", "dog", "zap", "fox"}

Computed == call.op \in {"_compute_word_weights", "generate_exercise"}

\* The samples collected for a word by the last _compute_word_weights.
SamplesOf(word) == Get(call.typing_times_by_word, word, <<>>)

C7_SamplingWeights ==
    Generated =>
        /\ Len(call.weights_of_words_to_include) = Len(call.words_to_include)
        /\ \A i \in 1..Len(call.words_to_include) :
              LET word == call.words_to_include[i]
                  w == call.weights_of_words_to_include[i]
              IN /\ word \in DOMAIN call.word_weights => w = call.word_weights[word]
                 /\ word \notin DOMAIN call.word_weights => w = <<1, 2>>
                 /\ QualifyingPlaces(exercise_history, word) = {} => w = <<1, 2>>
                 /\ QualifyingPlaces(exercise_history, word) # {}
                        => word \in DOMAIN call.word_weights
        /\ exercise_history = <<>>
              => \A i \in 1..Len(call.words_to_include) :
                    call.weights_of_words_to_include[i] = <<1, 2>>

C7_Witness ==
    /\ Generated
    /\ call.words_to_include = <<"the", "the", "cat", "dog", "zap", "fox">>
    /\ call.weights_of_words_to_include = <<Two, Two, Half, Half, Half, Half>>
    /\ "cat" \notin DOMAIN call.word_weights
    /\ \E e \in 1..Len(exercise_history) :
          /\ exercise_history[e].words[1].stroke.written_word = "cat"
          /\ exercise_history[e].words[1].is_typed_correctly

(***************************************************************************)
(* C8: every stroke returned by generate_exercise has a written_word among *)
(* the words of the enabled lessons, never a word of a disabled lesson     *)
(* only; draws are with replacement, so the same word may appear several   *)
(* times and exercise_size may exceed the number of distinct candidates.   *)
(***************************************************************************)
C8_WordsFromEnabledLessons ==
    Returned =>
        \A i \in 1..Len(call.strokes) :
            call.strokes[i].written_word \in EnabledWords(call.settings)

C8_Witness ==
    /\ Returned
    /\ call.settings = ExerciseSettings(2, <<Lessons[1]>>)
    /\ Cardinality(EnabledWords(call.settings)) = 1
    /\ Len(call.strokes) = 2
    /\ call.strokes[1].written_word = "the"
    /\ call.strokes[2].written_word = "the"

(***************************************************************************)
(* C9: generate_exercise called with no enabled lessons raises an error    *)
(* for every exercise_size; it returns no list of strokes, empty or not.   *)
(***************************************************************************)
C9_EmptyPoolRaises ==
    (Generated /\ call.settings.enabled_lessons = <<>>)
        => (call.raised # "none" /\ call.strokes = <<>> /\ call.random_words = <<>>)

C9_Witness ==
    /\ Generated
    /\ call.settings = ExerciseSettings(0, <<>>)
    /\ call.raised = "IndexError"

(***************************************************************************)
(* C10: each stroke returned by generate_exercise is built from the drawn  *)
(* word's first eligible notation in dictionary iteration order, its       *)
(* written_word is the drawn word, and the output keeps the draw order;    *)
(* later notations of the same word are never used.                        *)
(***************************************************************************)
C10_FirstNotationInDrawOrder ==
    Returned =>
        /\ Len(call.strokes) = Len(call.random_words)
        /\ \A i \in 1..Len(call.strokes) :
              /\ call.strokes[i].written_word = call.random_words[i]
              /\ call.strokes[i].chord_sequence
                    = ParseNotation(FirstEligible(call.random_words[i])).chords
              /\ call.random_words[i] = "the"
                    => call.strokes[i].chord_sequence = <<Chord(PySet({T_R}))>>

C10_Witness ==
    /\ Returned
    /\ call.random_words = <<"cat", "the">>
    /\ call.strokes = <<StrokeOfCat, StrokeOfThe>>
    /\ Cardinality(EligibleEntries("the")) = 2
(***************************************************************************)
(* C2: in _compute_word_weights the word result at index 0 of every        *)
(* recorded exercise never contributes a timing sample, whatever its       *)
(* correctness flag or typing time; the exclusion is by position, so the   *)
(* same word at a later position still contributes: the samples of a word  *)
(* are the typing times of its correctly typed results at positions after  *)
(* the first, in history order.                                            *)
(***************************************************************************)
C2_FirstWordExcluded ==
    Computed =>
        \A word \in AllWords :
            LET Q == QualifyingPlaces(exercise_history, word)
            IN /\ Len(SamplesOf(word)) = Cardinality(Q)
               /\ \A p \in Q :
                     SamplesOf(word)[Rank(Q, p)] = ResultAt(exercise_history, p).typing_time

C2_Witness ==
    /\ call.op = "_compute_word_weights"
    /\ Len(exercise_history) = 1
    /\ Len(exercise_history[1].words) = 2
    /\ exercise_history[1].words[1] = ExerciseWordResult(StrokeOfThe, TRUE, Two)
    /\ exercise_history[1].words[2] = ExerciseWordResult(StrokeOfThe, TRUE, Half)
    /\ SamplesOf("the") = <<Half>>

(***************************************************************************)
(* C3: in _compute_word_weights a word result with is_typed_correctly =    *)
(* False never contributes a timing sample, and a word all of whose        *)
(* recorded results are incorrect or first in their exercise has no entry  *)
(* in the returned weight mapping.                                         *)
(***************************************************************************)
C3_IncorrectExcluded ==
    Computed =>
        \A word \in AllWords :
            LET correct == {p \in Places(exercise_history) :
                              /\ ResultAt(exercise_history, p).is_typed_correctly
                              /\ ResultAt(exercise_history, p).stroke.written_word = word}
            IN /\ Len(SamplesOf(word)) <= Cardinality(correct)
               /\ \A k \in 1..Len(SamplesOf(word)) :
                     \E p \in correct :
                         ResultAt(exercise_history, p).typing_time = SamplesOf(word)[k]
               /\ (\A p \in correct : p[2] = 1) => word \notin DOMAIN call.word_weights
               /\ (\E p \in correct : p[2] > 1) => word \in DOMAIN call.word_weights

C3_Witness ==
    /\ call.op = "_compute_word_weights"
    /\ Len(exercise_history) = 1
    /\ Len(exercise_history[1].words) = 3
    /\ exercise_history[1].words[1] = ExerciseWordResult(StrokeOfCat, TRUE, Two)
    /\ exercise_history[1].words[2] = ExerciseWordResult(StrokeOfCat, FALSE, Two)
    /\ exercise_history[1].words[3] = ExerciseWordResult(StrokeOfThe, TRUE, Two)
    /\ DOMAIN call.word_weights = {"the"}

AddsSample(word) ==
    /\ Len(exercise_history') = Len(exercise_history) + 1
    /\ SubSeq(exercise_history', 1, Len(exercise_history)) = exercise_history
    /\ QualifyingPlaces(exercise_history, word) # {}
    /\ Cardinality(QualifyingPlaces(exercise_history', word))
          > Cardinality(QualifyingPlaces(exercise_history, word))

BeforeFirstWithout(random_words) ==
    LET without == {i \in 1..Len(random_words) : EligibleEntries(random_words[i]) = {}}
    IN 1..((CHOOSE i \in without : \A j \in without : i <= j) - 1)

DrewWordWithout ==
    /\ Generated
    /\ \E i \in 1..Len(call.random_words) : EligibleEntries(call.random_words[i]) = {}

(***************************************************************************)
(* C11 as stated: if a drawn word has no eligible notation in the reverse  *)
(* index (absent from the dictionary, or all its notations excluded),      *)
(* generate_exercise fails with a lookup error and returns no exercise; it *)
(* never substitutes another word or an empty stroke.                      *)
(***************************************************************************)
C11_NoNotationIsLookupError ==
    DrewWordWithout => (call.raised = "IndexError" /\ call.strokes = <<>>)

(***************************************************************************)
(* C11 as amended: if a drawn word has no eligible notation in the reverse *)
(* index (absent from the dictionary, or all its notations excluded),      *)
(* generate_exercise fails and returns no exercise, never substituting     *)
(* another word or an empty stroke; the failure is a lookup error          *)
(* (IndexError) when the first notation of every word drawn before it      *)
(* parses, and the AssertionError of parse_chords otherwise.               *)
(***************************************************************************)
C11_NoNotationFails ==
    DrewWordWithout =>
        /\ call.strokes = <<>>
        /\ call.raised =
              IF \A i \in BeforeFirstWithout(call.random_words) :
                    ParseNotation(FirstEligible(call.random_words[i])).ok
              THEN "IndexError" ELSE "AssertionError"

C11_Witness ==
    /\ Generated
    /\ call.random_words = <<"the", "fox">>
    /\ "fox" \notin {steno_dict[i].word : i \in 1..Len(steno_dict)}
    /\ call.raised = "IndexError"
    /\ call.strokes = <<>>

\* The position of a notation among the notations kept for a word, 0 when
\* it is not kept.
KeptAt(word, chord) ==
    LET kept == Get(reverse_dict, word, <<>>)
        at == {k \in 1..Len(kept) : kept[k] = chord}
    IN IF at = {} THEN 0 ELSE CHOOSE k \in at : TRUE

HasExcludedDigit(chord) ==
    \E j \in 1..Len(chord) :
        chord[j] \in {"0", "1", "2", "3", "4", "5", "7", "8", "9"}

Constructed == call.op = "__init__" /\ call.raised = "none"

(***************************************************************************)
(* C12: a (notation, word) dictionary entry appears in the reverse index   *)
(* if and only if its notation contains none of the characters             *)
(* 0,1,2,3,4,5,7,8,9; a notation whose only digit is 6 is kept, and each   *)
(* word's notations keep dictionary iteration order.                       *)
(***************************************************************************)
C12_ReverseIndex ==
    Constructed =>
        /\ \A i \in 1..Len(steno_dict) :
              /\ KeptAt(steno_dict[i].word, steno_dict[i].chord) # 0
                    <=> ~HasExcludedDigit(steno_dict[i].chord)
              /\ steno_dict[i].chord = <<"6">>
                    => KeptAt(steno_dict[i].word, steno_dict[i].chord) # 0
        /\ \A i \in 1..Len(steno_dict) : \A j \in 1..Len(steno_dict) :
              (/\ i < j
               /\ steno_dict[i].word = steno_dict[j].word
               /\ ~HasExcludedDigit(steno_dict[i].chord)
               /\ ~HasExcludedDigit(steno_dict[j].chord))
              => KeptAt(steno_dict[i].word, steno_dict[i].chord)
                    < KeptAt(steno_dict[j].word, steno_dict[j].chord)
        /\ \A word \in DOMAIN reverse_dict : \A k \in 1..Len(reverse_dict[word]) :
              \E i \in 1..Len(steno_dict) :
                  steno_dict[i] = Entry(reverse_dict[word][k], word)

C12_Witness ==
    /\ Constructed
    /\ steno_dict = <<Entry(<<"6">>, "the"), Entry(<<"1", "6">>, "cat"),
                      Entry(<<"-", "T">>, "the")>>
    /\ reverse_dict = ("the" :> <<<<"6">>, <<"-", "T">>>>)

\* The keys printed with a letter whose steno order is above a threshold.
KeysAbove(l, threshold) ==
    {key \in StenoKeys : letter(key) = l /\ order(key) > threshold}

(***************************************************************************)
(* C13: key resolution in parse_chords returns, for a letter and the       *)
(* current threshold, the key printed with that letter whose steno order   *)
(* is the smallest among those strictly greater than the threshold (so an  *)
(* S, T, P or R resolves to the left-half key while the threshold is below *)
(* it and to the right-half key afterwards).                               *)
(***************************************************************************)
C13_NearestKeyAbove ==
    call.op = "matching_key" =>
        LET l == call.argument.letter
            threshold == call.argument.min_order
            found == call.result.matching_key
            twins == {<<"S", S_L, S_R>>, <<"T", T_L, T_R>>, <<"P", P_L, P_R>>,
                      <<"R", R_L, R_R>>}
        IN /\ KeysAbove(l, threshold) # {} =>
                /\ found \in KeysAbove(l, threshold)
                /\ \A key \in KeysAbove(l, threshold) : order(found) <= order(key)
           /\ \A twin \in twins :
                 l = twin[1] =>
                    /\ threshold < order(twin[2]) => found = twin[2]
                    /\ (order(twin[2]) <= threshold /\ threshold < order(twin[3]))
                          => found = twin[3]

C13_Witness ==
    /\ call.op = "matching_key"
    /\ call.argument = [letter |-> "T", min_order |-> order(T_L)]
    /\ call.result.matching_key = T_R

\* The key of lowest steno order among those printed with the letter above
\* the threshold.
Nearest(l, threshold) ==
    CHOOSE key \in KeysAbove(l, threshold) :
        \A other \in KeysAbove(l, threshold) : order(key) <= order(other)

\* Reading a chord from its i-th character on with a threshold: the
\* position of the first letter that has no key above the current threshold
\* (0 when every letter has one), and the keys of the letters before it.
RECURSIVE Reading(_, _, _, _)
Reading(chord, i, threshold, keys) ==
    IF i > Len(chord) THEN [stuck |-> 0, keys |-> keys]
    ELSE IF chord[i] = "-" THEN Reading(chord, i + 1, STAR, keys)
    ELSE IF KeysAbove(chord[i], threshold) = {} THEN [stuck |-> i, keys |-> keys]
    ELSE Reading(chord, i + 1, order(Nearest(chord[i], threshold)),
                 keys \cup {Nearest(chord[i], threshold)})

ReadingOf(chord) == Reading(chord, 1, -1, {})

\* Some chord of the notation has a letter with no key above its threshold.
HasStuckLetter(stroke) ==
    \E k \in 1..Len(Split(stroke)) : ReadingOf(Split(stroke)[k]).stuck # 0

LettersIn(chord) == {i \in 1..Len(chord) : chord[i] # "-"}

(***************************************************************************)
(* C14: if any letter of a notation has no key with that letter and steno  *)
(* order strictly above the current threshold (a character on no key, or a *)
(* repeated / out-of-order letter whose only remaining key has order at or *)
(* below the threshold), parsing fails with an error and generate_exercise *)
(* returns nothing; the letter is never skipped and a key at or below the  *)
(* threshold is never picked: a notation that parses gives, for each of    *)
(* its letters, a key printed with that letter.                            *)
(***************************************************************************)
C14_UnresolvedLetterFails ==
    /\ call.op = "parse_chords" =>
          LET stroke == call.argument.stroke
              chords == Split(stroke)
          IN /\ HasStuckLetter(stroke) => (~call.result.ok /\ call.result.chords = <<>>)
             /\ call.result.ok =>
                   /\ ~HasStuckLetter(stroke)
                   /\ Len(call.result.chords) = Len(chords)
                   /\ \A k \in 1..Len(chords) :
                         /\ call.result.chords[k] = Chord(PySet(ReadingOf(chords[k]).keys))
                         /\ \A i \in LettersIn(chords[k]) :
                               \E key \in call.result.chords[k].keys.v :
                                   letter(key) = chords[k][i]
    /\ Generated =>
          \A i \in 1..Len(call.random_words) :
              (/\ EligibleEntries(call.random_words[i]) # {}
               /\ HasStuckLetter(FirstEligible(call.random_words[i])))
              => /\ call.raised # "none"
                 /\ call.strokes = <<>>
                 /\ (\A j \in 1..(i - 1) : Resolvable(call.random_words[j]))
                       => call.raised = "AssertionError"

C14_Witness ==
    /\ Generated
    /\ call.random_words = <<"cat", "zap">>
    /\ FirstEligible("zap") = <<"Z", "A", "P">>
    /\ ReadingOf(<<"Z", "A", "P">>).stuck = 2
    /\ call.raised = "AssertionError"
    /\ call.strokes = <<>>

\* parse_chords returned one chord with exactly these keys.
Recovered(keys) == call.result.ok /\ call.result.chords = <<Chord(PySet(keys))>>

\* Every key of the set is the first key with its letter after the key of
\* the set before it: a right-half S, T, P or R has a key of the set at or
\* after its left-half namesake before it.
ReadWithoutDash(keys) ==
    \A key \in keys : \A other \in StenoKeys :
        (letter(other) = letter(key) /\ order(other) < order(key))
            => \E before \in keys : order(other) <= order(before) /\ order(before) < order(key)

(***************************************************************************)
(* C15 as stated: for every set of keys, the notation formed by            *)
(* concatenating the keys' letters in increasing steno order, optionally   *)
(* with one `-` inserted before the first key at or after STAR, is parsed  *)
(* by parse_chords into a single chord containing exactly that key set.    *)
(***************************************************************************)
C15_NotationRecoversKeys ==
    call.op = "parse_chords" =>
        \A c \in ChordCases :
            (c.stroke = call.argument.stroke /\ c.dash \in {NoDash, order(STAR)})
                => Recovered(c.keys)

(***************************************************************************)
(* C15 as amended: for every set of keys, the notation formed by           *)
(* concatenating the keys' letters in increasing steno order is parsed by  *)
(* parse_chords into a single chord containing exactly that key set when   *)
(* one `-` is inserted before the first key after STAR; without a `-` it   *)
(* is so parsed exactly when every right-half S, T, P or R of the set has  *)
(* a key of the set at or after its left-half namesake before it (else the *)
(* letter is read as the left-half key); with the `-` before STAR itself   *)
(* parsing fails.                                                          *)
(***************************************************************************)
C15_NotationWithDashRecoversKeys ==
    call.op = "parse_chords" =>
        \A c \in ChordCases :
            c.stroke = call.argument.stroke =>
                /\ (c.dash = order(STAR) + 1 /\ \E key \in c.keys : order(key) > order(STAR))
                      => Recovered(c.keys)
                /\ c.dash = NoDash => (Recovered(c.keys) <=> ReadWithoutDash(c.keys))
                /\ (c.dash = order(STAR) /\ STAR \in c.keys) => ~call.result.ok

C15_Witness ==
    /\ call.op = "parse_chords"
    /\ call.argument.stroke = <<"A", "-", "T">>
    /\ call.argument.stroke = Notation({A, T_R}, order(STAR) + 1)
    /\ Recovered({A, T_R})

(***************************************************************************)
(* C16: constructing StenoExerciseGenerator never fails because of the     *)
(* history file: a missing file, an unreadable file, malformed JSON, or     *)
(* well-formed JSON that does not deserialize into exercise results (wrong *)
(* shape, bad timestamp, unknown key value) each yield an empty            *)
(* exercise_history with no error surfaced.                                *)
(***************************************************************************)
C16_ConstructionNeverFails ==
    call.op = "__init__" =>
        /\ call.raised = "none"
        /\ (user_log.kind # "json" \/ user_log.document \notin SavedDocuments)
              => exercise_history = <<>>

C16_Witness ==
    /\ call.op = "__init__"
    /\ user_log = JsonFile(JList(<<JList(<<JStr("the"), JList(<<>>)>>)>>))
    /\ call.raised = "ValueError"

(***************************************************************************)
(* C17: after any sequence of successful record_exercise_result and        *)
(* clear_exercise_history calls, the in-memory history is exactly the      *)
(* loaded history followed by the recorded results in call order,          *)
(* truncated to those recorded after the last clear, and the persisted     *)
(* store holds the serialization of that entire in-memory sequence (an     *)
(* empty collection right after clear).  Step by step: construction leaves *)
(* the file as it is, a record appends its result and writes the whole     *)
(* history, a clear empties the history and writes an empty list, and no   *)
(* other step touches either.                                              *)
(***************************************************************************)
C17_HistoryAndStore ==
    [][/\ call'.op = "__init__" => user_log' = user_log
       /\ call'.op = "record_exercise_result" =>
             /\ exercise_history' = Append(exercise_history, call'.argument.exercise_result)
             /\ user_log' = File("json", to_json_object(exercise_history'))
             /\ Len(user_log'.document.v) = Len(exercise_history) + 1
       /\ call'.op = "clear_exercise_history" =>
             /\ exercise_history' = <<>>
             /\ user_log' = File("json", JList(<<>>))
       /\ call'.op \notin {"__init__", "record_exercise_result", "clear_exercise_history"} =>
             /\ exercise_history' = exercise_history
             /\ user_log' = user_log]_vars

C17_Witness ==
    /\ call.op = "record_exercise_result"
    /\ Len(exercise_history) = 2
    /\ Len(exercise_history[1].words) = 1
    /\ exercise_history[1].words[1].stroke.chord_sequence[1].keys = PyList(<<T_R>>)
    /\ exercise_history[2] = call.argument.exercise_result
    /\ exercise_history[2].words[1].stroke = StrokeOfCat
    /\ user_log.kind = "json"
    /\ Len(user_log.document.v) = 2

\* The file holds what was saved of the history in memory, and it has been
\* read back.
ReadBack ==
    /\ call.op = "from_json_object"
    /\ user_log = File("json", to_json_object(exercise_history))

(***************************************************************************)
(* C18: saving a history and loading it back yields a history equal to the *)
(* original: to_json_object followed by from_json_object returns, for      *)
(* every exercise result, the same timestamp and the same word results,    *)
(* including strokes whose chords equal the original chords (as produced   *)
(* by generate_exercise), correctness flags and typing times.              *)
(***************************************************************************)
C18_SaveLoadRoundTrip ==
    ReadBack => (call.result.raised = "none" /\ call.result.value = exercise_history)

C18_Witness ==
    /\ ReadBack
    /\ exercise_history =
          <<ExerciseResult(Datetime("2020-03-01", "10:00:00", 250000),
                           <<ExerciseWordResult(StrokeOfThe, TRUE, Half)>>)>>
    /\ call.result.raised = "none"
    /\ call.result.value =
          <<ExerciseResult(Datetime("2020-03-01", "10:00:00", 250000),
                           <<ExerciseWordResult(Stroke(<<Chord(PyList(<<T_R>>))>>, "the"),
                                                TRUE, Half)>>)>>
    /\ call.result.value # exercise_history

\* The file was written by the call that has just finished.
Saved == call.op \in {"record_exercise_result", "clear_exercise_history"}

\* The places of the recorded words: result i of the history, word j of it.
SavedWords ==
    {place \in (1..Len(exercise_history)) \X (1..MaxLogWords) :
        place[2] <= Len(exercise_history[place[1]].words)}

StrokeAt(place) == exercise_history[place[1]].words[place[2]].stroke

\* What the file holds for the stroke of a recorded word.
SavedStrokeAt(place) == user_log.document.v[place[1]].v[2].v[place[2]].v[1]

KeySet(keys) == IF keys.t = "set" THEN keys.v ELSE Range(keys.v)

\* A saved stroke is the pair [chords, written_word] of the stroke.
IsStrokePair(saved, stroke) ==
    /\ saved.t = "list"
    /\ Len(saved.v) = 2
    /\ saved.v[1].t = "list"
    /\ Len(saved.v[1].v) = Len(stroke.chord_sequence)
    /\ saved.v[2] = JStr(stroke.written_word)

\* The saved chord is a list of the names of the chord's keys.
IsListOfKeyNames(saved, chord) ==
    /\ saved.t = "list"
    /\ Len(saved.v) = Cardinality(KeySet(chord.keys))
    /\ Range(saved.v) = {JStr(name(key)) : key \in KeySet(chord.keys)}

\* The saved chord is a list of one element, the list of the integer values
\* of the chord's keys.
IsListOfKeyValueList(saved, chord) ==
    /\ saved.t = "list"
    /\ Len(saved.v) = 1
    /\ saved.v[1].t = "list"
    /\ Len(saved.v[1].v) = Cardinality(KeySet(chord.keys))
    /\ Range(saved.v[1].v) = {JInt(key) : key \in KeySet(chord.keys)}

(***************************************************************************)
(* C19: in the persisted history every key is serialized by its name,      *)
(* every chord as a list of key names, and every stroke as the pair        *)
(* [chords, written_word].                                                 *)
(***************************************************************************)
C19_KeysSavedByName ==
    Saved =>
        \A place \in SavedWords :
            /\ IsStrokePair(SavedStrokeAt(place), StrokeAt(place))
            /\ \A c \in 1..Len(StrokeAt(place).chord_sequence) :
                  IsListOfKeyNames(SavedStrokeAt(place).v[1].v[c],
                                   StrokeAt(place).chord_sequence[c])

(***************************************************************************)
(* C19, as the code has it: in the persisted history every key is written  *)
(* as its integer enum value, every chord as a one-element list holding    *)
(* the list of its key values, and every stroke as the pair                *)
(* [chords, written_word].                                                 *)
(***************************************************************************)
C19_KeysSavedByValue ==
    Saved =>
        \A place \in SavedWords :
            /\ IsStrokePair(SavedStrokeAt(place), StrokeAt(place))
            /\ \A c \in 1..Len(StrokeAt(place).chord_sequence) :
                  IsListOfKeyValueList(SavedStrokeAt(place).v[1].v[c],
                                       StrokeAt(place).chord_sequence[c])

C19_Witness ==
    /\ call.op = "record_exercise_result"
    /\ <<1, 1>> \in SavedWords
    /\ StrokeAt(<<1, 1>>) = StrokeOfCat
    /\ SavedStrokeAt(<<1, 1>>).v[2] = JStr("cat")
    /\ Len(SavedStrokeAt(<<1, 1>>).v[1].v) = 1
    /\ Len(SavedStrokeAt(<<1, 1>>).v[1].v[1].v) = 1
    /\ Range(SavedStrokeAt(<<1, 1>>).v[1].v[1].v[1].v) = {JInt(K_L), JInt(A), JInt(T_R)}

\* The key of value at most STAR (left) or above it (right) with a letter.
LeftKey(l) == CHOOSE key \in S_L..STAR : letter(key) = l

RightKey(l) == CHOOSE key \in E..Z_R : letter(key) = l

(***************************************************************************)
(* C20: the steno order of the 22 keys is a bijection onto 0..21: the      *)
(* left-half keys S_L..STAR take orders 0..9 following STKPWHRAO* and the  *)
(* right-half keys E..Z_R take orders 10..21 following EUFRPBLGTSDZ, so no *)
(* two keys share an order and STAR has order 9 (equal to its enum value,  *)
(* which parse_chords uses as the `-` threshold): a letter resolved at     *)
(* that threshold is resolved to a right-half key or to none.              *)
(***************************************************************************)
C20_OrderIsBijection ==
    /\ Cardinality(StenoKeys) = 22
    /\ {order(key) : key \in StenoKeys} = 0..21
    /\ \A key, other \in StenoKeys : order(key) = order(other) => key = other
    /\ \A i \in 1..10 :
          order(LeftKey(<<"S", "T", "K", "P", "W", "H", "R", "A", "O", "*">>[i])) = i - 1
    /\ \A i \in 1..12 :
          order(RightKey(<<"E", "U", "F", "R", "P", "B", "L", "G", "T", "S", "D", "Z">>[i])) = 9 + i
    /\ order(STAR) = 9
    /\ order(STAR) = STAR
    /\ \A key \in StenoKeys : KeyOrder[key + 1] = order(key)
    /\ (call.op = "matching_key" /\ call.argument.min_order = STAR) =>
          \/ call.result.matching_key = NoKey
          \/ /\ call.result.matching_key \in E..Z_R
             /\ letter(call.result.matching_key) = call.argument.letter

C20_Witness ==
    /\ call.op = "matching_key"
    /\ call.argument = [letter |-> "T", min_order |-> STAR]
    /\ call.result.matching_key = T_R
    /\ order(T_R) = 18
    /\ order(T_L) = 1

\* The letters other than "-" among the first n of a segment.
KeyLetters(chord, n) == {i \in 1..n : chord[i] # "-"}

\* A pass of the letter loop has been made and nothing has been raised.
PassedLetter ==
    /\ call.op = "chord_loop"
    /\ call'.op = "chord_loop"
    /\ call'.raised = "none"

(***************************************************************************)
(* C21: while parse_chords processes one `/`-segment the threshold never   *)
(* decreases: the keys resolved for successive letters have strictly       *)
(* increasing steno order, so no key is resolved twice and the resulting   *)
(* chord has exactly one key per non-`-` letter of the segment, wherever a *)
(* `-` occurs in it.                                                       *)
(***************************************************************************)
C21_ThresholdNeverDecreases ==
    [][PassedLetter =>
          /\ call'.result.min_order >= call.result.min_order
          /\ \A i, j \in 1..Len(call'.result.matching_keys) :
                i < j => order(call'.result.matching_keys[i]) < order(call'.result.matching_keys[j])
          /\ Cardinality(call'.result.keys) =
                Cardinality(KeyLetters(call'.argument.chord, call'.result.letters))]_vars

\* E-E: the "-" after E lowers the threshold from 10 to 9, E is found a
\* second time, and the chord of two letters has one key.
C21_Witness ==
    /\ call.op = "chord_loop"
    /\ call.raised = "none"
    /\ call.argument.chord = <<"E", "-", "E">>
    /\ call.result.letters = 3
    /\ call.result.matching_keys = <<E, E>>
    /\ call.result.keys = {E}
    /\ call.result.min_order = order(E)
    /\ parse_chords(<<"E", "-", "E">>) = [ok |-> TRUE, chords |-> <<Chord(PySet({E}))>>]

\* The number of the segment that position i of a notation lies in.
SegmentNumber(stroke, i) == 1 + Cardinality({j \in 1..(i - 1) : stroke[j] = "/"})

SegmentCount(stroke) == SegmentNumber(stroke, Len(stroke) + 1)

\* The k-th segment: the letters between the (k - 1)-st and the k-th "/".
SegmentAt(stroke, k) ==
    LET places == {i \in 1..Len(stroke) : stroke[i] # "/" /\ SegmentNumber(stroke, i) = k}
    IN IF places = {} THEN <<>>
       ELSE SubSeq(stroke, CHOOSE i \in places : \A j \in places : i <= j,
                           CHOOSE i \in places : \A j \in places : i >= j)

(***************************************************************************)
(* C22: parse_chords returns exactly one chord per `/`-separated segment   *)
(* of the notation, in segment order; an empty segment (empty notation,    *)
(* leading, trailing or doubled `/`, or a segment consisting only of `-`)  *)
(* yields an empty chord and no error.                                     *)
(***************************************************************************)
C22_OneChordPerSegment ==
    call.op = "parse_chords" =>
        LET stroke == call.argument.stroke
            segments == 1..SegmentCount(stroke)
        IN /\ call.result.ok <=> \A k \in segments : ParseChord(SegmentAt(stroke, k)).ok
           /\ call.result.ok =>
                 /\ Len(call.result.chords) = SegmentCount(stroke)
                 /\ \A k \in segments :
                       call.result.chords[k] =
                          Chord(PySet(ParseChord(SegmentAt(stroke, k)).keys))
           /\ \A k \in segments :
                 KeyLetters(SegmentAt(stroke, k), Len(SegmentAt(stroke, k))) = {} =>
                    ParseChord(SegmentAt(stroke, k)) = [ok |-> TRUE, keys |-> {}]

C22_Witness ==
    /\ call.op = "parse_chords"
    /\ call.argument.stroke = <<"K", "/", "/", "T">>
    /\ call.result = [ok |-> TRUE,
                      chords |-> <<Chord(PySet({K_L})), Chord(PySet({})), Chord(PySet({T_L}))>>]
    /\ parse_chords(<<>>) = [ok |-> TRUE, chords |-> <<Chord(PySet({}))>>]
    /\ parse_chords(<<"K", "/", "-">>) =
          [ok |-> TRUE, chords |-> <<Chord(PySet({K_L})), Chord(PySet({}))>>]

\* The file is what an interrupted save leaves: empty, or the beginning of
\* the text of a history.
LeftByInterruptedSave == user_log.kind = "text"

(***************************************************************************)
(* C23: if a persist started by record_exercise_result or                  *)
(* clear_exercise_history is interrupted after the history file has been   *)
(* opened for writing and before the write completes (file empty or a      *)
(* proper prefix of the serialized history), the next construction of      *)
(* StenoExerciseGenerator loads an empty history without raising.          *)
(***************************************************************************)
C23_InterruptedSaveLoadsEmpty ==
    [][(LeftByInterruptedSave /\ call'.op = "__init__") =>
          /\ call'.raised = "none"
          /\ exercise_history' = <<>>
          /\ json_load(user_log.document.v).raised = "JSONDecodeError"]_vars

\* The file ends inside the typing time 0.5 of the only word, read as the
\* number 0, and the construction has gone through; the whole text would
\* have been read back as the document that was being written.
C23_Witness ==
    /\ call.op = "__init__"
    /\ call.raised = "none"
    /\ exercise_history = <<>>
    /\ LeftByInterruptedSave
    /\ Len(user_log.document.v) = 21
    /\ user_log.document.v[21] = JInt(0)
    /\ \E tokens \in {json_dump(to_json_object(
                         <<ExerciseResult(Datetime("2020-03-01", "10:00:00", 250000),
                                          <<ExerciseWordResult(StrokeOfThe, TRUE, Half)>>)>>))} :
          /\ SubSeq(tokens, 1, 20) = SubSeq(user_log.document.v, 1, 20)
          /\ json_load(tokens).raised = "none"
          /\ json_load(tokens).value = to_json_object(
                 <<ExerciseResult(Datetime("2020-03-01", "10:00:00", 250000),
                                  <<ExerciseWordResult(StrokeOfThe, TRUE, Half)>>)>>)

\* The step is a record or a clear whose save has raised.
SaveHasFailed ==
    /\ call'.op \in {"record_exercise_result", "clear_exercise_history"}
    /\ call'.raised # "none"

(***************************************************************************)
(* C24: record_exercise_result and clear_exercise_history are              *)
(* all-or-nothing: when the persist step fails (directory creation, open,  *)
(* serialization or write error) the error propagates to the caller and    *)
(* the call has changed neither the in-memory history nor the previously   *)
(* persisted history.                                                      *)
(***************************************************************************)
C24_AllOrNothing ==
    [][SaveHasFailed =>
          /\ exercise_history' = exercise_history
          /\ user_log' = user_log]_vars

\* A record whose save failed while serializing: the result is in the
\* in-memory history and the file, which held one result, is empty.
C24_Witness ==
    /\ call.op = "record_exercise_result"
    /\ call.raised = "TypeError"
    /\ Len(exercise_history) = 2
    /\ exercise_history[2] = call.argument.exercise_result
    /\ user_log = TextFile(<<>>)

(***************************************************************************)
(* C25: generate_exercise is read-only with respect to generator state:    *)
(* whether it returns or fails (including for a drawn word missing from    *)
(* the dictionary), the in-memory exercise_history, the persisted history  *)
(* file, steno_dict and the reverse index (its set of keys and every       *)
(* word's notation list) are the same after the call as before.            *)
(***************************************************************************)
C25_GenerateIsReadOnly ==
    [][call'.op = "generate_exercise" =>
          /\ exercise_history' = exercise_history
          /\ user_log' = user_log
          /\ steno_dict' = steno_dict
          /\ DOMAIN reverse_dict' = DOMAIN reverse_dict
          /\ \A word \in DOMAIN reverse_dict : reverse_dict'[word] = reverse_dict[word]]_vars

\* "fox" was drawn: no entry of the dictionary has it, the call has failed,
\* and the reverse index has the key "fox" with no notation.
C25_Witness ==
    /\ call.op = "generate_exercise"
    /\ call.raised = "IndexError"
    /\ "fox" \in Range(call.random_words)
    /\ \A i \in 1..Len(steno_dict) : steno_dict[i].word # "fox"
    /\ "fox" \in DOMAIN reverse_dict
    /\ reverse_dict["fox"] = <<>>
    /\ DOMAIN reverse_dict # DOMAIN ReverseDict(steno_dict)

\* The step is an update of the contents of an entry, or the setting of an
\* exercise of at least one word.
Updates == call'.op = "on_contents_update" /\ <<exercise_frame, listener, call>> # <<exercise_frame', listener', call'>>

SetsExercise == call'.op = "set_exercise" /\ call'.raised = "none" /\ exercise_frame' # exercise_frame

\* Word k of the frame, counted from 0, before and after the step.
WordAt(k) == exercise_frame.words[k + 1]

WordAfter(k) == exercise_frame'.words[k + 1]

(***************************************************************************)
(* C26: in StenoExerciseFrame the active word index word_i starts at 0     *)
(* when an exercise is set and only ever advances by one; word k+1 is      *)
(* begun only after word k has been completely typed (finished is True,    *)
(* finish_time set) and word k's entry has been reset to exactly its       *)
(* text_to_type and disabled.  The entry that can be edited is always the  *)
(* one of word word_i.                                                     *)
(***************************************************************************)
C26_WordsInTurn ==
    [][/\ SetsExercise =>
             /\ exercise_frame'.word_i = 0
             /\ WordAfter(0).state = "normal"
       /\ (~SetsExercise /\ call'.op # "set_exercise") =>
             /\ exercise_frame'.word_i \in {exercise_frame.word_i, exercise_frame.word_i + 1}
             /\ Len(exercise_frame'.words) = Len(exercise_frame.words)
       /\ (call'.op # "set_exercise" /\ exercise_frame'.word_i = exercise_frame.word_i + 1) =>
             LET k == exercise_frame.word_i
             IN /\ Updates
                /\ call'.argument.index = k
                /\ WordAfter(k).finished
                /\ WordAfter(k).finish_time \in exercise_frame.exercise_begin_time..monotonic
                /\ WordAfter(k).text_entry_var = text_to_type(WordAt(k))
                /\ WordAfter(k).state = "disabled"
                /\ WordAt(k + 1).state = "disabled"
                /\ WordAfter(k + 1).state = "normal"
       /\ \A k \in 0..(Len(exercise_frame'.words) - 1) :
             /\ WordAfter(k).state = "normal" <=> k = exercise_frame'.word_i
             /\ k < exercise_frame'.word_i =>
                   /\ WordAfter(k).finished
                   /\ WordAfter(k).text_entry_var = text_to_type(WordAfter(k))]_vars

C26_Witness ==
    /\ call.op = "on_contents_update"
    /\ call.argument = [index |-> 0, new_contents |-> <<" ", "t", "h", "e", " ">>]
    /\ Len(exercise_frame.words) = 2
    /\ exercise_frame.word_i = 1
    /\ exercise_frame.words[1].finished
    /\ exercise_frame.words[1].finish_time = 2
    /\ exercise_frame.words[1].text_entry_var = <<" ", "t", "h", "e">>
    /\ exercise_frame.words[1].state = "disabled"
    /\ exercise_frame.words[2].state = "normal"
    /\ exercise_frame.words[2].text_entry_var = <<" ">>

\* The contents is a beginning of the text: it is the first n characters of
\* it for some n.
IsBeginningOf(contents, text) ==
    \E n \in 0..Len(text) :
        /\ Len(contents) = n
        /\ \A i \in 1..n : contents[i] = text[i]

IsLastWord(k) == k + 1 = Len(exercise_frame.words)

\* The contents counts as a mistake in the entry of word k: it is not a
\* beginning of text_to_type and one space, or the word is the last one and
\* the contents is text_to_type and the space.
IsMistake(contents, k) ==
    \/ ~IsBeginningOf(contents, text_to_type(WordAt(k)) \o <<" ">>)
    \/ IsLastWord(k) /\ contents = text_to_type(WordAt(k)) \o <<" ">>

\* The step tells the listener that the exercise is finished.
ReportsFinish == Len(listener'.finish_exercise) = Len(listener.finish_exercise) + 1

Reported == listener'.finish_exercise[Len(listener'.finish_exercise)]

(***************************************************************************)
(* C27: a word's incorrectly_typed flag is never reset once set: the       *)
(* recorded is_typed_correctly of a word is True if and only if, over the  *)
(* whole exercise, its entry never held contents that were not a prefix of *)
(* text_to_type followed by one space (and, for the last word, never held  *)
(* text_to_type plus trailing characters); correcting a mistake afterwards *)
(* does not make the word count as correctly typed.  Step by step: a new   *)
(* exercise starts with no flag set, an update sets the flag of its word   *)
(* exactly when the new contents is a mistake and leaves every other flag  *)
(* alone, the contents carried over to the next word is no mistake, no     *)
(* other step touches the frame, and the report gives each word the        *)
(* negation of its flag.                                                   *)
(***************************************************************************)
C27_MistakeIsKept ==
    [][/\ call'.op = "set_exercise" =>
             \A k \in 0..(Len(exercise_frame'.words) - 1) : ~WordAfter(k).incorrectly_typed
       /\ Updates =>
             \A k \in 0..(Len(exercise_frame.words) - 1) :
                WordAfter(k).incorrectly_typed <=>
                   \/ WordAt(k).incorrectly_typed
                   \/ k = call'.argument.index /\ IsMistake(call'.argument.new_contents, k)
       /\ (Updates /\ exercise_frame'.word_i # exercise_frame.word_i) =>
             ~IsMistake(WordAfter(exercise_frame'.word_i).text_entry_var, exercise_frame'.word_i)
       /\ (~Updates /\ call'.op # "set_exercise") => exercise_frame' = exercise_frame
       /\ ReportsFinish =>
             \A k \in 0..(Len(exercise_frame'.words) - 1) :
                Reported.words[k + 1].is_typed_correctly <=> ~WordAfter(k).incorrectly_typed]_vars

\* The first word was mistyped and then corrected: the exercise is finished
\* with every entry holding its text, and the first word is reported as not
\* typed correctly.
C27_Witness ==
    /\ Len(listener.finish_exercise) = 1
    /\ Len(exercise_frame.words) = 2
    /\ \A k \in 0..1 : WordAt(k).text_entry_var = text_to_type(WordAt(k))
    /\ WordAt(0).incorrectly_typed
    /\ ~listener.finish_exercise[1].words[1].is_typed_correctly
    /\ listener.finish_exercise[1].words[2].is_typed_correctly

\* The sum of the typing times of word results, from the i-th on.
RECURSIVE SumOfTypingTimes(_, _)
SumOfTypingTimes(word_results, i) ==
    IF i > Len(word_results) THEN <<0, 1>>
    ELSE RAdd(word_results[i].typing_time, SumOfTypingTimes(word_results, i + 1))

\* The time at which the word before word k was finished: the begin time of
\* the exercise for the first word.
FinishedBefore(k) ==
    IF k = 0 THEN exercise_frame'.exercise_begin_time ELSE WordAfter(k - 1).finish_time

(***************************************************************************)
(* C28: _on_finish_exercise reports exactly one ExerciseWordResult per     *)
(* word of the exercise, in exercise order, whose typing_time is that      *)
(* word's finish_time minus the previous word's finish_time (the exercise  *)
(* begin time for the first word), so the typing times of one exercise sum *)
(* to the last word's finish_time minus the exercise begin time.           *)
(***************************************************************************)
C28_TypingTimes ==
    [][ReportsFinish =>
          /\ Len(Reported.words) = Len(exercise_frame'.words)
          /\ Reported.timestamp = exercise_frame'.exercise_begin_date
          /\ \A k \in 0..(Len(exercise_frame'.words) - 1) :
                /\ Reported.words[k + 1].stroke = WordAfter(k).stroke
                /\ Reported.words[k + 1].typing_time =
                      <<WordAfter(k).finish_time - FinishedBefore(k), 1>>
                /\ Reported.words[k + 1].typing_time[1] >= 0
          /\ SumOfTypingTimes(Reported.words, 1) =
                <<WordAfter(Len(exercise_frame'.words) - 1).finish_time
                     - exercise_frame'.exercise_begin_time, 1>>]_vars

\* Two words, the exercise set at time 1, both words finished at time 2.
C28_Witness ==
    /\ Len(listener.finish_exercise) = 1
    /\ Len(exercise_frame.words) = 2
    /\ exercise_frame.exercise_begin_time = 1
    /\ WordAt(0).finish_time = 2
    /\ WordAt(1).finish_time = 2
    /\ listener.finish_exercise[1].words[1].typing_time = <<1, 1>>
    /\ listener.finish_exercise[1].words[2].typing_time = <<0, 1>>
    /\ listener.finish_exercise[1].words[1].stroke = StrokeOfThe
    /\ listener.finish_exercise[1].words[2].stroke = StrokeOfCat

\* The word an update is made to, and the contents the update brings.
Updated == call'.argument.index

NewContents == call'.argument.new_contents

(***************************************************************************)
(* C29: the exercise is reported finished (listener.finish_exercise is     *)
(* called) only by an update that leaves the last word's entry holding     *)
(* exactly its text_to_type, and every such update reports it; an update   *)
(* that leaves the last entry holding text_to_type plus a trailing space   *)
(* marks the last word incorrectly typed and reports no finish, and no     *)
(* update to a non-last word reports a finish.                             *)
(***************************************************************************)
C29_FinishOnLastWord ==
    [][/\ listener'.finish_exercise # listener.finish_exercise =>
             \/ call'.op = "set_exercise" /\ listener'.finish_exercise = <<>>
             \/ /\ Updates
                /\ ReportsFinish
       /\ Updates =>
             /\ ReportsFinish <=>
                   /\ IsLastWord(Updated)
                   /\ NewContents = text_to_type(WordAt(Updated))
             /\ ReportsFinish => WordAfter(Updated).text_entry_var = text_to_type(WordAt(Updated))
             /\ (IsLastWord(Updated) /\ NewContents = text_to_type(WordAt(Updated)) \o <<" ">>) =>
                   /\ WordAfter(Updated).incorrectly_typed
                   /\ WordAfter(Updated).text_entry_var = NewContents
                   /\ ~ReportsFinish
             /\ ~IsLastWord(Updated) => ~ReportsFinish]_vars

\* The last of two words has been left holding its text and a space: it is
\* marked, nothing is reported, and the first word was typed without mistake.
C29_Witness ==
    /\ call.op = "on_contents_update"
    /\ call.argument = [index |-> 1, new_contents |-> <<" ", "c", "a", "t", " ">>]
    /\ Len(exercise_frame.words) = 2
    /\ WordAt(1).text_entry_var = <<" ", "c", "a", "t", " ">>
    /\ WordAt(1).incorrectly_typed
    /\ WordAt(1).finished
    /\ ~WordAt(0).incorrectly_typed
    /\ listener.finish_exercise = <<>>

(***************************************************************************)
(* C30: a non-last word advances exactly when its entry becomes            *)
(* text_to_type followed by one space: the entry is then reset to          *)
(* text_to_type and disabled, that single space becomes the initial        *)
(* content of the next word's entry, and the next word becomes active;     *)
(* contents longer than text_to_type plus one character never advance and  *)
(* are treated as mistyped, so the content carried over to the next word   *)
(* is never more than one space.                                           *)
(***************************************************************************)
C30_AdvanceOnSpace ==
    [][(Updates /\ ~IsLastWord(Updated)) =>
          LET advances == exercise_frame'.word_i = Updated + 1
              text == text_to_type(WordAt(Updated))
          IN /\ exercise_frame.word_i = Updated
             /\ advances <=> NewContents = text \o <<" ">>
             /\ advances =>
                   /\ WordAfter(Updated).text_entry_var = text
                   /\ WordAfter(Updated).state = "disabled"
                   /\ WordAt(Updated + 1).text_entry_var = <<>>
                   /\ WordAfter(Updated + 1).text_entry_var = <<" ">>
                   /\ WordAfter(Updated + 1).state = "normal"
             /\ ~advances =>
                   /\ exercise_frame'.word_i = Updated
                   /\ WordAfter(Updated).text_entry_var = NewContents
                   /\ WordAfter(Updated).state = "normal"
                   /\ WordAfter(Updated + 1) = WordAt(Updated + 1)
             /\ Len(NewContents) > Len(text) + 1 =>
                   /\ ~advances
                   /\ WordAfter(Updated).incorrectly_typed
             /\ \A k \in (exercise_frame'.word_i + 1)..(Len(exercise_frame'.words) - 1) :
                   WordAfter(k).text_entry_var = <<>>]_vars

\* The first of two words was mistyped, which marked it and did not advance;
\* then it was left holding its text and one space, which did.
C30_Witness ==
    /\ call.op = "on_contents_update"
    /\ call.argument = [index |-> 0, new_contents |-> <<" ", "t", "h", "e", " ">>]
    /\ Len(exercise_frame.words) = 2
    /\ exercise_frame.word_i = 1
    /\ WordAt(0).incorrectly_typed
    /\ WordAt(0).text_entry_var = <<" ", "t", "h", "e">>
    /\ WordAt(0).state = "disabled"
    /\ WordAt(1).text_entry_var = <<" ">>
    /\ WordAt(1).state = "normal"

\* The entry of the word holds its complete text: text_to_type, alone or
\* with the whitespace after it.
HoldsCompleteText(word) ==
    \/ word.text_entry_var = text_to_type(word)
    \/ word.text_entry_var = text_to_type(word) \o <<" ">>

\* What must be typed next when word k is the active one: its first chord
\* while its entry does not hold the complete text, then the first chord of
\* the word after it, and nothing after the last word.
ToTypeNext(k) ==
    IF ~HoldsCompleteText(WordAt(k)) THEN WordAt(k).stroke.chord_sequence[1]
    ELSE IF ~IsLastWord(k) THEN WordAt(k + 1).stroke.chord_sequence[1]
    ELSE Nothing

(***************************************************************************)
(* C31: the chord preview always shows what must be typed next: whenever   *)
(* the active word's entry does not hold its complete text the preview     *)
(* shows that word's first chord, and whenever it holds the complete text  *)
(* the preview shows the next word's first chord (nothing after the last   *)
(* word); a word's finished flag is True exactly when its entry currently  *)
(* holds its complete text_to_type, also after characters are deleted from *)
(* a completed word.                                                       *)
(***************************************************************************)
C31_PreviewShowsNext ==
    exercise_frame.words # <<>> =>
       /\ listener.chord_preview = ToTypeNext(exercise_frame.word_i)
       /\ \A k \in 0..(Len(exercise_frame.words) - 1) :
             WordAt(k).finished <=> HoldsCompleteText(WordAt(k))

\* The first of two words was completed and its last character then
\* deleted: the word still counts as finished and the preview still shows
\* the chord of the second word.
C31_Witness ==
    /\ Len(exercise_frame.words) = 2
    /\ call.op = "on_contents_update"
    /\ call.argument = [index |-> 0, new_contents |-> <<" ", "t", "h">>]
    /\ exercise_frame.word_i = 0
    /\ WordAt(0).stroke = StrokeOfThe
    /\ WordAt(1).stroke = StrokeOfCat
    /\ WordAt(0).text_entry_var = <<" ", "t", "h">>
    /\ ~WordAt(0).incorrectly_typed
    /\ WordAt(0).finished
    /\ listener.chord_preview = StrokeOfCat.chord_sequence[1]

(***************************************************************************)
(* C32: when _on_finish_exercise runs, every word of the exercise has      *)
(* finished == True and the words' finish times are non-decreasing in      *)
(* exercise order and not earlier than the exercise begin time, so every   *)
(* typing_time recorded into the history is non-negative.                  *)
(***************************************************************************)
C32_FinishTimesInOrder ==
    [][ReportsFinish =>
          /\ \A k \in 0..(Len(exercise_frame'.words) - 1) :
                /\ WordAfter(k).finished
                /\ WordAfter(k).finish_time >= exercise_frame'.exercise_begin_time
                /\ WordAfter(k).finish_time <= monotonic'
                /\ k > 0 => WordAfter(k - 1).finish_time <= WordAfter(k).finish_time
          /\ \A i \in 1..Len(Reported.words) :
                RLess(<<-1, 1>>, Reported.words[i].typing_time)]_vars

\* The exercise was set at time 1; the first word was completed at that
\* same reading of the clock and the second word at time 2.
C32_Witness ==
    /\ Len(listener.finish_exercise) = 1
    /\ Len(exercise_frame.words) = 2
    /\ exercise_frame.exercise_begin_time = 1
    /\ WordAt(0).finished /\ WordAt(1).finished
    /\ WordAt(0).finish_time = 1
    /\ WordAt(1).finish_time = 2
    /\ listener.finish_exercise[1].words[1].typing_time = <<0, 1>>
    /\ listener.finish_exercise[1].words[2].typing_time = <<1, 1>>

\* The smallest of the typing times, which are not empty.
SmallestOf(typing_times) ==
    CHOOSE t \in Range(typing_times) : \A other \in Range(typing_times) : ~RLess(other, t)

\* Every typing time collected from the history is strictly positive.
TimesArePositive ==
    \A word \in DOMAIN call.typing_times_by_word :
        \A t \in Range(call.typing_times_by_word[word]) : RLess(RZero, t)

(***************************************************************************)
(* C33: for any history in which every qualifying typing time is strictly  *)
(* positive, every computed weight is strictly positive and no larger than *)
(* the smallest qualifying typing time of that word, so every candidate    *)
(* word (history weight or default 0.5) has positive sampling weight and   *)
(* can be drawn by generate_exercise: the draw does not fail for want of   *)
(* weight, and each candidate is the outcome of some draw.                 *)
(***************************************************************************)
C33_WeightsArePositive ==
    (Computed /\ TimesArePositive) =>
        /\ \A word \in DOMAIN call.word_weights :
              /\ RLess(RZero, call.word_weights[word])
              /\ ~RLess(SmallestOf(SamplesOf(word)), call.word_weights[word])
        /\ (call.op = "generate_exercise" /\ call.words_to_include # <<>>) =>
              /\ \A i \in 1..Len(call.words_to_include) :
                    /\ RLess(RZero, call.weights_of_words_to_include[i])
                    /\ \E drawn \in Choices(call.words_to_include,
                                             call.weights_of_words_to_include, 1) :
                          drawn[1] = call.words_to_include[i]
              /\ call.raised # "ValueError"

\* The only qualifying time of "the" is Tiny: its weight is 0.0, and with
\* "the" as the only candidate the draw fails for want of weight.
C33_Witness ==
    /\ call.op = "generate_exercise"
    /\ call.settings = ExerciseSettings(1, <<Lessons[1]>>)
    /\ SamplesOf("the") = <<Tiny>>
    /\ RLess(RZero, Tiny)
    /\ call.word_weights["the"] = RZero
    /\ call.weights_of_words_to_include = <<RZero>>
    /\ call.raised = "ValueError"
\* C34: when the dialog was opened with settings whose exercise_size is at
\* least 1, the settings _on_ok hands to on_settings_dialog_close have an
\* exercise_size of at least 1 and a non-empty enabled_lessons, whatever the
\* text of the size entry and the state of the checkboxes; _on_cancel hands
\* over None for the settings and False for settings_changed.
C34_DialogHandsOverValidSettings ==
    /\ (call.op = "_on_ok" /\ settings_dialog.initial_settings.exercise_size >= 1)
          => /\ call.result.new_settings.exercise_size >= 1
             /\ Len(call.result.new_settings.enabled_lessons) >= 1
    /\ call.op = "_on_cancel"
          => /\ call.result.new_settings = Nothing
             /\ call.result.settings_changed = FALSE

\* A dialog opened with two words and both lessons, closed with OK after
\* "-2" was typed and both boxes were unchecked: one word of the default
\* lesson is handed over.
C34_Witness ==
    /\ call.op = "_on_ok"
    /\ settings_dialog.initial_settings = ExerciseSettings(2, Lessons)
    /\ settings_dialog.exercise_size_entry = <<"-", "2">>
    /\ \A row \in 1..Len(Lessons) : settings_dialog.lesson_checkboxes[row].var = 0
    /\ call.result.new_settings = ExerciseSettings(1, <<"One Syllable Words">>)
    /\ call.result.settings_changed

\* C35: for every notation the parser written out in gui.py's
\* _generate_exercise fails when parse_chords fails, and otherwise makes the
\* same chords, with the same key sets in the same order.
C35_InlineParserAgrees ==
    call.op = "_generate_exercise" => call.result = parse_chords(call.argument.stroke)

\* KAT/-T: gui.py reads the T of the first chord as the left-hand T, for
\* parse_chords it is the right-hand T that comes after A.
C35_Witness ==
    /\ call.op = "_generate_exercise"
    /\ call.argument.stroke = <<"K", "A", "T", "/", "-", "T">>
    /\ call.result = [ok |-> TRUE,
                      chords |-> <<Chord(PySet({K_L, A, T_L})), Chord(PySet({T_R}))>>]
    /\ parse_chords(call.argument.stroke) =
          [ok |-> TRUE, chords |-> <<Chord(PySet({K_L, A, T_R})), Chord(PySet({T_R}))>>]

====
